---- MODULE Spec2Model ----
(***************************************************************************)
(* pterm: a persistent terminal-session daemon.                            *)
(*                                                                         *)
(* The module models, from the Rust sources,                               *)
(*   - the scrollback ring            (src/src/buffer.rs)                  *)
(*   - the wire codec                 (src/proto/src/lib.rs)               *)
(*   - the session                    (src/src/session.rs)                 *)
(*   - the per-session server loop    (src/src/server.rs)                  *)
(*   - the bridge process             (src/src/bridge.rs)                  *)
(* Bytes are integers in 0..255, byte strings are sequences of bytes.      *)
(* Rust indices are 0-based, sequences here are 1-based: a Rust slice      *)
(* v[a..b] is SubSeq(v, a + 1, b).                                         *)
(***************************************************************************)
EXTENDS Integers, Sequences, FiniteSets, TLC

(***************************************************************************)
(* Bounds of the model.                                                    *)
(***************************************************************************)
\* SpecBuf: largest ring capacity tried, longest single append, total appended
MaxCap == 3
MaxChunk == 4
MaxTotal == 7
\* Spec: peers that ever connect, bytes the kernel buffers towards one peer,
\* times a peer empties that buffer, capacity of the session's ring
\* (DEFAULT_SCROLLBACK_SIZE in session.rs, scaled down)
MaxClients == 2
SockCap == 9
MaxDrains == 1
ScrollCap == 8

Min(a, b) == IF a <= b THEN a ELSE b

\* v[from..] of Rust, with a 0-based `from`
SliceFrom(v, from) == SubSeq(v, from + 1, Len(v))

\* the last n elements of v
LastN(v, n) == SubSeq(v, Len(v) - n + 1, Len(v))

\* all sequences over S of length exactly n / at most n
SeqsOfLen(S, n) == [1..n -> S]
SeqsUpTo(S, n) == UNION {SeqsOfLen(S, k) : k \in 0..n}

(***************************************************************************)
(* Scrollback ring: src/src/buffer.rs                                      *)
(***************************************************************************)

\* ScrollbackBuffer::new
ScrollbackBuffer_new(capacity) ==
    [buf |-> [i \in 1..capacity |-> 0],
     capacity |-> capacity,
     write_pos |-> 0,
     total_written |-> 0]

\* dst[pos .. pos + src.len()].copy_from_slice(src), pos 0-based
copy_from_slice(dst, pos, src) ==
    [i \in 1..Len(dst) |->
        IF i > pos /\ i <= pos + Len(src) THEN src[i - pos] ELSE dst[i]]

\* data.chunks(n): consecutive pieces of n elements, the last one maybe shorter
chunks(data, n) ==
    [k \in 1..((Len(data) + n - 1) \div n) |->
        SubSeq(data, (k - 1) * n + 1, Min(k * n, Len(data)))]

\* one iteration of the loop of ScrollbackBuffer::append
append_chunk(sb, chunk0) ==
    LET chunk == IF Len(chunk0) > sb.capacity
                 THEN SliceFrom(chunk0, Len(chunk0) - sb.capacity)
                 ELSE chunk0
        space_to_end == sb.capacity - sb.write_pos
        buf1 == IF Len(chunk) <= space_to_end
                THEN copy_from_slice(sb.buf, sb.write_pos, chunk)
                ELSE copy_from_slice(
                         copy_from_slice(sb.buf, sb.write_pos,
                                         SubSeq(chunk, 1, space_to_end)),
                         0, SliceFrom(chunk, space_to_end))
    IN [sb EXCEPT !.buf = buf1,
                  !.write_pos = (sb.write_pos + Len(chunk)) % sb.capacity,
                  !.total_written = sb.total_written + Len(chunk)]

RECURSIVE append_loop(_, _, _)
append_loop(sb, cs, k) ==
    IF k > Len(cs) THEN sb ELSE append_loop(append_chunk(sb, cs[k]), cs, k + 1)

\* an append that takes the data as one chunk and keeps its last `capacity`
\* bytes
append_one_chunk(sb, data) ==
    IF data = <<>> THEN sb ELSE append_chunk(sb, data)

\* ScrollbackBuffer::append
append(sb, data) == append_loop(sb, chunks(data, sb.capacity), 1)

\* get_contents without the rotation of a wrapped ring
get_contents_unrotated(sb) ==
    IF sb.total_written = 0 THEN <<>>
    ELSE IF sb.total_written <= sb.capacity
         THEN SubSeq(sb.buf, 1, sb.total_written)
         ELSE sb.buf

\* ScrollbackBuffer::get_contents
get_contents(sb) ==
    IF sb.total_written = 0 THEN <<>>
    ELSE IF sb.total_written <= sb.capacity
         THEN SubSeq(sb.buf, 1, sb.total_written)
         ELSE SliceFrom(sb.buf, sb.write_pos) \o SubSeq(sb.buf, 1, sb.write_pos)

(***************************************************************************)
(* Wire codec: src/proto/src/lib.rs                                        *)
(***************************************************************************)
client_INPUT == 1
client_RESIZE == 2
client_DETACH == 3
server_OUTPUT == 1
server_EXIT == 2
server_SCROLLBACK == 128
HEADER_SIZE == 5

\* v.to_le_bytes() of an n-byte integer (two's complement for a negative v)
to_le_bytes(v, n) == [i \in 1..n |-> (v \div (256 ^ (i - 1))) % 256]

\* u32::from_le_bytes / u16::from_le_bytes
from_le_bytes(b) ==
    LET RECURSIVE sum(_)
        sum(i) == IF i > Len(b) THEN 0 ELSE b[i] * (256 ^ (i - 1)) + sum(i + 1)
    IN sum(1)

\* encode with the length written big-endian
encode_be(msg_type, payload) ==
    <<msg_type>>
        \o [i \in 1..4 |-> to_le_bytes(Len(payload), 4)[5 - i]]
        \o payload

\* proto::encode
encode(msg_type, payload) ==
    <<msg_type>> \o to_le_bytes(Len(payload), 4) \o payload

\* proto::decode_header: <<msg_type, payload_length>>
decode_header(header) ==
    <<header[1], from_le_bytes(SubSeq(header, 2, 5))>>

\* proto::encode_resize
encode_resize(cols, rows) == to_le_bytes(cols, 2) \o to_le_bytes(rows, 2)

\* decode_resize reading rows first
decode_resize_swapped(payload) ==
    <<from_le_bytes(SubSeq(payload, 3, 4)), from_le_bytes(SubSeq(payload, 1, 2))>>

\* proto::decode_resize: <<cols, rows>>
decode_resize(payload) ==
    <<from_le_bytes(SubSeq(payload, 1, 2)), from_le_bytes(SubSeq(payload, 3, 4))>>

(***************************************************************************)
(* Scrollback replay sanitizer: src/src/server.rs                          *)
(***************************************************************************)
\* the inner `while j < data.len()` loop: the 0-based index of the first CSI
\* final byte at or after j, or data.len() when there is none
RECURSIVE csi_final_index(_, _)
csi_final_index(data, j) ==
    IF j >= Len(data) THEN Len(data)
    ELSE IF data[j + 1] >= 64 /\ data[j + 1] <= 126 THEN j
    ELSE csi_final_index(data, j + 1)

\* a sanitizer that stops at a CSI without final byte and drops it
RECURSIVE sanitize_loop_drop_truncated(_, _, _)
sanitize_loop_drop_truncated(data, i, out) ==
    IF i >= Len(data) THEN out
    ELSE IF data[i + 1] = 27 /\ i + 1 < Len(data) /\ data[i + 2] = 91
    THEN LET j == csi_final_index(data, i + 2)
         IN IF j >= Len(data)
            THEN out
            ELSE LET final_byte == data[j + 1]
                     params == SubSeq(data, i + 3, j)
                     is_status_query == final_byte = 110
                     is_device_attr_query ==
                         /\ final_byte = 99
                         /\ (params = <<>> \/ params[1] = 62 \/ params[1] = 63)
                 IN sanitize_loop_drop_truncated(data, j + 1,
                        IF ~(is_status_query \/ is_device_attr_query)
                        THEN out \o SubSeq(data, i + 1, j + 1)
                        ELSE out)
    ELSE sanitize_loop_drop_truncated(data, i + 1, Append(out, data[i + 1]))

\* the outer `while i < data.len()` loop, i 0-based
RECURSIVE sanitize_loop(_, _, _)
sanitize_loop(data, i, out) ==
    IF i >= Len(data) THEN out
    ELSE IF data[i + 1] = 27 /\ i + 1 < Len(data) /\ data[i + 2] = 91
    THEN LET j == csi_final_index(data, i + 2)
         IN IF j >= Len(data)
            THEN out \o SliceFrom(data, i)
            ELSE LET final_byte == data[j + 1]
                     params == SubSeq(data, i + 3, j)
                     is_status_query == final_byte = 110
                     is_device_attr_query ==
                         /\ final_byte = 99
                         /\ (params = <<>> \/ params[1] = 62 \/ params[1] = 63)
                 IN sanitize_loop(data, j + 1,
                        IF ~(is_status_query \/ is_device_attr_query)
                        THEN out \o SubSeq(data, i + 1, j + 1)
                        ELSE out)
    ELSE sanitize_loop(data, i + 1, Append(out, data[i + 1]))

\* sanitize_scrollback_for_replay
sanitize_scrollback_for_replay(data) == sanitize_loop(data, 0, <<>>)

(***************************************************************************)
(* Session: src/src/session.rs                                             *)
(*                                                                         *)
(* The child is [st, n]: "running", "exited" with status n, "signaled" by  *)
(* signal n (both not yet reaped), or "reaped".  Option<i32> is a sequence *)
(* of length 0 (None) or 1 (Some).                                         *)
(***************************************************************************)
\* a check_exit that records the signal number as it is
check_exit_raw_signal(exited, child) ==
    IF exited # <<>>
    THEN [exited |-> exited, child |-> child, result |-> exited]
    ELSE CASE child.st = "exited" ->
                [exited |-> <<child.n>>,
                 child |-> [st |-> "reaped", n |-> 0],
                 result |-> <<child.n>>]
           [] child.st = "signaled" ->
                [exited |-> <<child.n>>,
                 child |-> [st |-> "reaped", n |-> 0],
                 result |-> <<child.n>>]
           [] OTHER ->
                [exited |-> exited, child |-> child, result |-> <<>>]

\* a check_exit that calls waitpid(WNOHANG) every time: once the child is
\* reaped, waitpid fails and the call returns None
check_exit_always_waits(exited, child) ==
    CASE child.st = "exited" ->
            [exited |-> <<child.n>>,
             child |-> [st |-> "reaped", n |-> 0],
             result |-> <<child.n>>]
      [] child.st = "signaled" ->
            [exited |-> <<128 + child.n>>,
             child |-> [st |-> "reaped", n |-> 0],
             result |-> <<128 + child.n>>]
      [] OTHER ->
            [exited |-> exited, child |-> child, result |-> <<>>]

\* Session::check_exit: waitpid(WNOHANG) unless the slot is already set
check_exit(exited, child) ==
    IF exited # <<>>
    THEN [exited |-> exited, child |-> child, result |-> exited]
    ELSE CASE child.st = "exited" ->
                [exited |-> <<child.n>>,
                 child |-> [st |-> "reaped", n |-> 0],
                 result |-> <<child.n>>]
           [] child.st = "signaled" ->
                [exited |-> <<128 + child.n>>,
                 child |-> [st |-> "reaped", n |-> 0],
                 result |-> <<128 + child.n>>]
           [] OTHER ->
                [exited |-> exited, child |-> child, result |-> <<>>]

\* a read_pty that hands the bytes on without appending them
read_pty_no_append(sb, data) == sb

\* Session::read_pty with n > 0 bytes read: they go to the scrollback
read_pty(sb, data) == append(sb, data)

(***************************************************************************)
(* Server: src/src/server.rs                                               *)
(*                                                                         *)
(* The handlers are functions of a record W of what they touch:            *)
(*   clients  id -> [recv_buf, send_buf, writable]   (Server.clients and   *)
(*            the interest the stream is registered with)                  *)
(*   peer     id -> the kernel's and the peer's side of the stream         *)
(*   hist     id -> history of the stream                                  *)
(*   ptyIn    the bytes written to the PTY master, in order                *)
(*   winsize  the PTY's <<cols, rows>>                                     *)
(*   ok, err  ok is FALSE once a handler returned Err, and err says which: *)
(*            "stream" for a failed write to a client's stream, "pty" for  *)
(*            a failed write to the PTY master                             *)
(***************************************************************************)
Ids == 0..(MaxClients - 1)

\* the tokens the sources are registered with
LISTENER == 0
PTY_BASE == 268435456
CLIENT_BASE == 536870912

\* a client token that takes the PTY's base
client_token_pty_base(id) == PTY_BASE + id

\* Token(CLIENT_BASE.0 + id)
client_token(id) == CLIENT_BASE + id

\* `match event.token()` of Server::run: the arm an event is handled by
token_arm(token) ==
    IF token = LISTENER THEN "listener"
    ELSE IF token >= CLIENT_BASE THEN "client"
    ELSE IF token = PTY_BASE THEN "pty"
    ELSE "none"

\* `let id = token.0 - CLIENT_BASE.0`
client_id(token) == token - CLIENT_BASE

\* the most bytes the server can ever put on one stream
WireMax == SockCap * (MaxDrains + 1)

Trunc(s, n) == SubSeq(s, 1, Min(Len(s), n))

IsPrefix(a, b) == Len(a) <= Len(b) /\ SubSeq(b, 1, Len(a)) = a

\* HashMap::remove / HashMap::insert
map_remove(m, id) == [k \in DOMAIN m \ {id} |-> m[k]]
map_insert(m, id, v) == [k \in DOMAIN m \cup {id} |-> IF k = id THEN v ELSE m[k]]

\* what epoll finds when it looks at the stream of client id
stream_readable(W, id) ==
    W.peer[id].toServer # <<>> \/ W.peer[id].state = "closed"
stream_writable(W, id) ==
    W.peer[id].unread < SockCap \/ W.peer[id].state = "closed"

\* set_client_interest that leaves the registration as it is
set_client_interest_keep(W, id, writable) ==
    W

\* Server::set_client_interest: reregister; epoll puts a source that is ready
\* for its new interest back on the ready list
set_client_interest(W, id, writable) ==
    IF id \notin DOMAIN W.clients THEN W
    ELSE [W EXCEPT !.clients[id].writable = writable,
                   !.peer[id].armed =
                       \/ @
                       \/ stream_readable(W, id)
                       \/ (writable /\ stream_writable(W, id))]

\* UnixStream::write on the non-blocking stream, repeated until it would
\* block: the number of bytes the kernel takes
stream_room(W, id) == SockCap - W.peer[id].unread

\* Server::flush_client_send_buf.  A write to a stream whose peer is gone
\* fails (EPIPE); otherwise the kernel takes what fits and the next write
\* would block.
flush_client_send_buf(W, id) ==
    IF id \notin DOMAIN W.clients THEN W
    ELSE LET send_buf == W.clients[id].send_buf
             n == Min(Len(send_buf), stream_room(W, id))
         IN IF send_buf = <<>> THEN set_client_interest(W, id, FALSE)
            ELSE IF W.peer[id].state = "closed"
            THEN [W EXCEPT !.ok = FALSE, !.err = "stream"]
            ELSE set_client_interest(
                     [W EXCEPT !.clients[id].send_buf = SliceFrom(send_buf, n),
                               !.peer[id].unread = @ + n,
                               !.hist[id].wire = @ \o SubSeq(send_buf, 1, n),
                               !.hist[id].flushed = @ \o SubSeq(send_buf, 1, n)],
                     id, n < Len(send_buf))

\* `let _ = client.stream.write_all(&msg)` of the EXIT broadcast: the kernel
\* takes what fits, then write_all gives up with WouldBlock; the result is
\* dropped.  exitSent counts the EXIT frames written whole (up to 2).
write_all_ignored(W, id, msg) ==
    LET n == IF W.peer[id].state = "closed" THEN 0
             ELSE Min(Len(msg), stream_room(W, id))
    IN [W EXCEPT !.peer[id].unread = @ + n,
                 !.hist[id].wire = @ \o SubSeq(msg, 1, n),
                 !.hist[id].produced = Trunc(@ \o msg, WireMax),
                 !.hist[id].exitSent = IF n = Len(msg) THEN Min(@ + 1, 2) ELSE @]

\* the EXIT broadcast of Server::run, over the clients in ids
RECURSIVE broadcast_exit(_, _, _)
broadcast_exit(W, ids, msg) ==
    IF ids = {} THEN W
    ELSE LET id == CHOOSE x \in ids : \A y \in ids : x <= y
         IN broadcast_exit(write_all_ignored(W, id, msg), ids \ {id}, msg)

\* an accept that registers the client and replays nothing
accept_one_no_replay(W, id, sb) ==
    [W EXCEPT !.clients = map_insert(@, id,
                  [recv_buf |-> <<>>, send_buf |-> <<>>, writable |-> FALSE]),
              !.peer[id].armed = stream_readable(W, id)]

\* one accepted connection in Server::accept_client
accept_one(W, id, sb) ==
    LET scrollback == sanitize_scrollback_for_replay(get_contents(sb))
        msg == encode(server_SCROLLBACK, scrollback)
        W1 == [W EXCEPT !.clients = map_insert(@, id,
                            [recv_buf |-> <<>>, send_buf |-> <<>>, writable |-> FALSE]),
                        !.peer[id].armed = stream_readable(W, id)]
    IN IF scrollback # <<>>
       THEN flush_client_send_buf(
                [W1 EXCEPT !.clients[id].send_buf = @ \o msg,
                           !.hist[id].snapshot = msg,
                           !.hist[id].produced = Trunc(@ \o msg, WireMax)],
                id)
       ELSE W1

\* Server::accept_client: accept until the listener would block; connection
\* number id gets client id id.  A failed flush returns the error at once.
RECURSIVE accept_client(_, _, _, _)
accept_client(W, id, connected, sb) ==
    IF id >= connected \/ ~W.ok THEN [W |-> W, next_client_id |-> id]
    ELSE accept_client(accept_one(W, id, sb), id + 1, connected, sb)

\* the second and third loop of Server::handle_pty_output: flush every client,
\* remove those whose flush failed
RECURSIVE flush_all(_, _)
flush_all(W, ids) ==
    IF ids = {} THEN W
    ELSE LET id == CHOOSE x \in ids : \A y \in ids : x <= y
             W1 == flush_client_send_buf(W, id)
         IN flush_all(IF W1.ok THEN W1
                      ELSE [W EXCEPT !.clients = map_remove(@, id)],
                      ids \ {id})

\* handle_pty_output that skips a client whose send_buf is not empty
handle_pty_output_skip_busy(W, data) ==
    LET msg == encode(server_OUTPUT, data)
        W1 == [W EXCEPT
                 !.clients = [id \in DOMAIN @ |->
                                 IF @[id].send_buf = <<>>
                                 THEN [@[id] EXCEPT !.send_buf = @ \o msg]
                                 ELSE @[id]]]
    IN flush_all(W1, DOMAIN W.clients)

\* Server::handle_pty_output after read_pty returned data (n > 0)
handle_pty_output(W, data) ==
    LET msg == encode(server_OUTPUT, data)
        W1 == [W EXCEPT
                 !.clients = [id \in DOMAIN @ |->
                                 [@[id] EXCEPT !.send_buf = @ \o msg]],
                 !.hist = [id \in DOMAIN @ |->
                              IF id \in DOMAIN W.clients
                              THEN [@[id] EXCEPT !.produced = Trunc(@ \o msg, WireMax)]
                              ELSE @[id]]]
    IN flush_all(W1, DOMAIN W.clients)

\* a dispatch that resizes on every RESIZE frame, reading a short payload as
\* if the missing bytes were 0
dispatch_resize_any(W, id, msg_type, payload, slaveOpen) ==
    LET W1 == [W EXCEPT !.hist[id].dispatched =
                            Append(@, [type |-> msg_type, payload |-> payload])]
    IN CASE msg_type = client_INPUT ->
                IF payload = <<>> THEN W1
                ELSE IF ~slaveOpen THEN [W1 EXCEPT !.ok = FALSE, !.err = "pty"]
                ELSE [W1 EXCEPT !.ptyIn = @ \o payload]
         [] msg_type = client_RESIZE ->
                [W1 EXCEPT !.winsize =
                     decode_resize(SubSeq(payload \o <<0, 0, 0, 0>>, 1, 4))]
         [] OTHER -> W1

\* one frame of the `match msg_type` of Server::process_client_recv_buf.
\* Session::write_pty fails once the slave side is closed (the child is
\* gone); Session::resize does not fail.
dispatch(W, id, msg_type, payload, slaveOpen) ==
    LET W1 == [W EXCEPT !.hist[id].dispatched =
                            Append(@, [type |-> msg_type, payload |-> payload])]
    IN CASE msg_type = client_INPUT ->
                IF payload = <<>> THEN W1
                ELSE IF ~slaveOpen THEN [W1 EXCEPT !.ok = FALSE, !.err = "pty"]
                ELSE [W1 EXCEPT !.ptyIn = @ \o payload]
         [] msg_type = client_RESIZE ->
                IF Len(payload) >= 4
                THEN [W1 EXCEPT !.winsize = decode_resize(SubSeq(payload, 1, 4))]
                ELSE W1
         [] msg_type = client_DETACH -> W1
         [] OTHER -> W1

\* the `while offset + HEADER_SIZE <= recv_buf.len()` loop of
\* Server::process_client_recv_buf
RECURSIVE process_loop(_, _, _, _, _)
process_loop(W, id, recv_buf, offset, slaveOpen) ==
    IF ~(offset + HEADER_SIZE <= Len(recv_buf)) THEN [W |-> W, offset |-> offset]
    ELSE LET header == SubSeq(recv_buf, offset + 1, offset + HEADER_SIZE)
             msg_type == decode_header(header)[1]
             payload_len == decode_header(header)[2]
         IN IF offset + HEADER_SIZE + payload_len > Len(recv_buf)
            THEN [W |-> W, offset |-> offset]
            ELSE LET payload == SubSeq(recv_buf, offset + HEADER_SIZE + 1,
                                       offset + HEADER_SIZE + payload_len)
                     W1 == dispatch(W, id, msg_type, payload, slaveOpen)
                 IN IF ~W1.ok
                    THEN [W |-> W1, offset |-> offset + HEADER_SIZE + payload_len]
                    ELSE process_loop(W1, id, recv_buf,
                                      offset + HEADER_SIZE + payload_len, slaveOpen)

\* process_client_recv_buf that does not put the rest of the buffer back
process_client_recv_buf_drop_rest(W, id, slaveOpen) ==
    IF id \notin DOMAIN W.clients THEN W
    ELSE process_loop([W EXCEPT !.clients[id].recv_buf = <<>>],
                      id, W.clients[id].recv_buf, 0, slaveOpen).W

\* Server::process_client_recv_buf: the buffer is taken out of the client,
\* parsed, and what is left is put back; an error returns before that.
\* partial remembers that a call left bytes of an incomplete frame behind.
process_client_recv_buf(W, id, slaveOpen) ==
    IF id \notin DOMAIN W.clients THEN W
    ELSE LET recv_buf == W.clients[id].recv_buf
             r == process_loop([W EXCEPT !.clients[id].recv_buf = <<>>],
                               id, recv_buf, 0, slaveOpen)
             rest == SliceFrom(recv_buf, r.offset)
         IN IF ~r.W.ok THEN r.W
            ELSE [r.W EXCEPT !.clients[id].recv_buf = rest,
                             !.hist[id].partial = @ \/ rest # <<>>]

\* Server::handle_client_data: one read of everything the kernel holds
\* (the buffer is 65536 bytes), end of file when the peer is gone and
\* nothing is left to read, WouldBlock otherwise
handle_client_data(W, id, slaveOpen) ==
    IF id \notin DOMAIN W.clients THEN W
    ELSE LET data == W.peer[id].toServer
         IN IF data # <<>>
            THEN process_client_recv_buf(
                     [W EXCEPT !.clients[id].recv_buf = @ \o data,
                               !.peer[id].toServer = <<>>,
                               !.hist[id].received = @ \o data],
                     id, slaveOpen)
            ELSE IF W.peer[id].state = "closed"
            THEN [W EXCEPT !.clients = map_remove(@, id)]
            ELSE IF W.clients[id].recv_buf # <<>>
            THEN process_client_recv_buf(W, id, slaveOpen)
            ELSE W

\* std::fs::remove_file(&self.socket_path): whether the file exists afterwards
remove_file(exists) == FALSE

\* a Server without the Drop impl
Server_drop_nothing(exists) == exists

\* impl Drop for Server
Server_drop(exists) == remove_file(exists)

(***************************************************************************)
(* State.                                                                  *)
(***************************************************************************)
VARIABLES
    \* the program
    scrollback,       \* Session.scrollback: the ScrollbackBuffer
    exited,           \* Session.exited: Option<i32>
    clients,          \* Server.clients, with each stream's registered interest
    next_client_id,   \* Server.next_client_id
    pc,               \* where Server::run is: "loop", "events", "reap", "done", "error"
    events,           \* the events of the current batch still to handle
    err,              \* the error Server::run returned with, "" when none
    \* the world around it
    socket,           \* whether the socket file exists
    connected,        \* how many peers have connected to the listener so far
    lsnArmed,         \* the listener is on epoll's ready list
    peer,             \* id -> the peer's and the kernel's side of stream id
    script,           \* the bytes every peer sends, piece by piece
    pty,              \* [out, armed, writes, full, nonblock]: the PTY master
    child,            \* the child process
    \* history
    appended,         \* all bytes appended to the ring, in order
    lastAppend,       \* the length of the last append call
    reads,            \* the chunks read_pty returned, in order
    ptyIn,            \* the bytes written to the PTY master, in order
    winsize,          \* the PTY's <<cols, rows>>
    hist,             \* id -> history of stream id
    \* a bridge process (SpecBridge, SpecAttach, SpecWinch)
    bridge,           \* the state of bridge::run and of its three descriptors
    \* a pure function on its own (SpecCodec, SpecReplay)
    codec             \* the arguments and the results of the calls

progVars == <<scrollback, exited, clients, next_client_id, pc, events, err>>
envVars == <<socket, connected, lsnArmed, peer, script, pty, child>>
histVars == <<appended, lastAppend, reads, ptyIn, winsize, hist>>
vars == <<progVars, envVars, histVars, bridge, codec>>

\* Server::run has returned
Returned == pc \in {"done", "error"}

EmptyMap == [k \in {} |-> 0]

NoPeer == [state |-> "none", toServer |-> <<>>, unread |-> 0, armed |-> FALSE,
           sent |-> 0, drains |-> 0]

NoHist == [wire |-> <<>>, flushed |-> <<>>, produced |-> <<>>, snapshot |-> <<>>,
           joinedAt |-> 0, received |-> <<>>, dispatched |-> <<>>, exitSent |-> 0,
           partial |-> FALSE]

\* the window size Session::new is given
InitialWinsize == <<80, 24>>

\* what one peer sends: an INPUT frame
PeerScript == encode(client_INPUT, <<97>>)

\* what the child writes to the PTY, piece by piece: the query CSI ? 6 n,
\* then "hello"
ChildScript == << <<27, 91, 63, 54, 110>>, <<104, 101, 108, 108, 111>> >>

\* how the child can end: exit(7), or killed by signal 9
ChildEnds == {[st |-> "exited", n |-> 7], [st |-> "signaled", n |-> 9]}

\* no bridge runs
NoBridge == [pc |-> "none"]

\* no call of the codec is looked at
NoCodec == [op |-> "none"]

\* Pty::spawn: the master of a new PTY pair, as openpty(None, None) gives it.
\* Nothing is written yet, and the descriptor is in blocking mode: neither
\* Pty::spawn nor Session::new nor Server::new sets O_NONBLOCK on it.
Pty_spawn ==
    [out |-> <<>>, armed |-> FALSE, writes |-> 0, full |-> FALSE, nonblock |-> FALSE]

\* everything but the ring, as it is when Server::new has returned
ServerInit ==
    /\ exited = <<>>
    /\ clients = EmptyMap
    /\ next_client_id = 0
    /\ pc = "loop"
    /\ events = {}
    /\ err = ""
    /\ socket = TRUE
    /\ connected = 0
    /\ lsnArmed = FALSE
    /\ peer = [k \in Ids |-> NoPeer]
    /\ pty = Pty_spawn
    /\ child = [st |-> "running", n |-> 0]
    /\ reads = <<>>
    /\ ptyIn = <<>>
    /\ winsize = InitialWinsize
    /\ hist = [k \in Ids |-> NoHist]

Init ==
    /\ scrollback = ScrollbackBuffer_new(ScrollCap)
    /\ appended = <<>>
    /\ lastAppend = 0
    /\ script = PeerScript
    /\ ServerInit
    /\ bridge = NoBridge
    /\ codec = NoCodec

\* the record the handlers work on, and its way back into the state
World == [clients |-> clients, peer |-> peer, hist |-> hist,
          ptyIn |-> ptyIn, winsize |-> winsize, ok |-> TRUE, err |-> ""]

\* Server::run returns: with Ok after the loop (the socket file is removed,
\* then the server is dropped) or with Err through a `?` (the server is
\* dropped).  Dropping the server closes every client stream.
Return(W, how) ==
    /\ pc' = how
    /\ err' = W.err
    /\ events' = {}
    /\ socket' = IF how = "done" THEN Server_drop(remove_file(socket))
                 ELSE Server_drop(socket)
    /\ clients' = EmptyMap
    /\ peer' = W.peer
    /\ hist' = W.hist
    /\ ptyIn' = W.ptyIn
    /\ winsize' = W.winsize

\* a handler is done: on to the next event, to the reaping after the last
\* one, or out of run when the handler failed
Handled(W, left) ==
    IF ~W.ok THEN Return(W, "error")
    ELSE /\ events' = left
         /\ pc' = IF left = {} THEN "reap" ELSE "events"
         /\ err' = err
         /\ clients' = W.clients
         /\ peer' = W.peer
         /\ hist' = W.hist
         /\ ptyIn' = W.ptyIn
         /\ winsize' = W.winsize
         /\ socket' = socket

(***************************************************************************)
(* Server::run, one step at a time.                                        *)
(***************************************************************************)
\* what Poll::poll reports: mio's readiness is edge-triggered, so a source is
\* reported when it is on the ready list and ready for what it is registered
\* for; being reported takes it off the list
ReadyEvents ==
    {[token |-> LISTENER, r |-> TRUE, w |-> FALSE] :
        x \in {1} \cap (IF lsnArmed /\ connected > next_client_id THEN {1} ELSE {})}
    \cup
    {[token |-> PTY_BASE, r |-> TRUE, w |-> FALSE] :
        x \in {1} \cap (IF pty.armed /\ (pty.out # <<>> \/ child.st # "running")
                        THEN {1} ELSE {})}
    \cup
    {[token |-> client_token(id),
      r |-> stream_readable(World, id),
      w |-> clients[id].writable /\ stream_writable(World, id)] :
        id \in {k \in DOMAIN clients :
                   /\ peer[k].armed
                   /\ \/ stream_readable(World, k)
                      \/ (clients[k].writable /\ stream_writable(World, k))}}

\* the top of the loop: the liveness check on the socket file, then poll
LoopTop ==
    /\ pc = "loop"
    /\ IF ~socket
       THEN /\ Return(World, "done")
            /\ UNCHANGED <<lsnArmed, pty>>
       ELSE /\ events' = ReadyEvents
            /\ pc' = IF ReadyEvents = {} THEN "reap" ELSE "events"
            /\ lsnArmed' = FALSE
            /\ pty' = [pty EXCEPT !.armed = FALSE]
            /\ peer' = [k \in Ids |->
                           IF k \in DOMAIN clients
                           THEN [peer[k] EXCEPT !.armed = FALSE] ELSE peer[k]]
            /\ UNCHANGED <<err, socket, clients, hist, ptyIn, winsize>>
    /\ UNCHANGED <<scrollback, exited, next_client_id, connected, script, child,
                   appended, lastAppend, reads>>
    /\ UNCHANGED <<bridge, codec>>

\* LISTENER => self.accept_client()?
OnListener ==
    /\ pc = "events"
    /\ \E e \in events :
        /\ token_arm(e.token) = "listener"
        /\ LET a == accept_client(World, next_client_id, connected, scrollback)
               W == [a.W EXCEPT !.hist =
                        [k \in Ids |->
                            IF k >= next_client_id /\ k < a.next_client_id
                            THEN [@[k] EXCEPT !.joinedAt = Len(reads)] ELSE @[k]]]
           IN /\ next_client_id' = a.next_client_id
              /\ Handled(W, events \ {e})
    /\ UNCHANGED <<scrollback, exited, connected, lsnArmed, script, pty, child,
                   appended, lastAppend, reads>>
    /\ UNCHANGED <<bridge, codec>>

\* the handler of client event e would stay in Session::write_pty: it has
\* bytes to write and the PTY takes no more input (the child does not read
\* its terminal); write_pty returns only once all bytes are written
StuckInWritePty(e) ==
    /\ e.r
    /\ pty.full
    /\ child.st = "running"
    /\ handle_client_data(World, client_id(e.token), TRUE).ptyIn # ptyIn

\* the handler of a client event: handle_client_data if readable, then
\* flush_client_send_buf if writable, each with `?`
client_event(W, e, slaveOpen) ==
    LET id == client_id(e.token)
        W1 == IF e.r THEN handle_client_data(W, id, slaveOpen) ELSE W
    IN IF ~W1.ok THEN W1
       ELSE IF e.w THEN flush_client_send_buf(W1, id) ELSE W1

\* token >= CLIENT_BASE => ...
OnClient ==
    /\ pc = "events"
    /\ \E e \in events :
        /\ token_arm(e.token) = "client"
        /\ ~StuckInWritePty(e)
        /\ Handled(client_event(World, e, child.st = "running"), events \ {e})
    /\ UNCHANGED <<scrollback, exited, next_client_id, connected, lsnArmed, script,
                   pty, child, appended, lastAppend, reads>>
    /\ UNCHANGED <<bridge, codec>>

\* PTY_BASE => self.handle_pty_output(&mut pty_buf)?: one read of what the
\* master holds; with nothing to read the read fails (the slave is closed)
\* and the error is logged
OnPty ==
    /\ pc = "events"
    /\ \E e \in events :
        /\ token_arm(e.token) = "pty"
        /\ IF pty.out # <<>>
           THEN /\ scrollback' = read_pty(scrollback, pty.out)
                /\ appended' = appended \o pty.out
                /\ lastAppend' = Len(pty.out)
                /\ reads' = Append(reads, pty.out)
                /\ pty' = [pty EXCEPT !.out = <<>>]
                /\ Handled(handle_pty_output(World, pty.out), events \ {e})
           ELSE /\ Handled(World, events \ {e})
                /\ UNCHANGED <<scrollback, appended, lastAppend, reads, pty>>
    /\ UNCHANGED <<exited, next_client_id, connected, lsnArmed, script, child>>
    /\ UNCHANGED <<bridge, codec>>

\* after the events: reap the child, broadcast EXIT, leave the loop when the
\* child is gone and no client is left
Reap ==
    /\ pc = "reap"
    /\ LET c == check_exit(exited, child)
           W == IF c.result # <<>>
                THEN broadcast_exit(World, DOMAIN clients,
                         encode(server_EXIT, to_le_bytes(c.result[1], 4)))
                ELSE World
           break == \/ c.result # <<>> /\ DOMAIN clients = {}
                    \/ c.exited # <<>> /\ DOMAIN clients = {}
       IN /\ exited' = c.exited
          /\ child' = c.child
          /\ IF break
             THEN Return(W, "done")
             ELSE /\ pc' = "loop"
                  /\ peer' = W.peer
                  /\ hist' = W.hist
                  /\ UNCHANGED <<events, err, socket, clients, ptyIn, winsize>>
    /\ UNCHANGED <<scrollback, next_client_id, connected, lsnArmed, script, pty,
                   appended, lastAppend, reads>>
    /\ UNCHANGED <<bridge, codec>>

(***************************************************************************)
(* The world: peers, the child, and whoever removes the socket file.       *)
(***************************************************************************)
\* stream k is still the server's: waiting to be accepted, or a client
Attached(k) == k < connected /\ (k >= next_client_id \/ k \in DOMAIN clients)

PeerConnect ==
    /\ ~Returned
    /\ socket
    /\ connected < MaxClients
    /\ peer' = [peer EXCEPT ![connected].state = "open"]
    /\ connected' = connected + 1
    /\ lsnArmed' = TRUE
    /\ UNCHANGED <<progVars, histVars, socket, script, pty, child>>
    /\ UNCHANGED <<bridge, codec>>

\* peer k sends the next n bytes of its script
PeerSend(k, n) ==
    /\ ~Returned
    /\ Attached(k)
    /\ peer[k].state = "open"
    /\ n >= 1
    /\ peer[k].sent + n <= Len(script)
    /\ peer' = [peer EXCEPT
                 ![k].toServer = @ \o SubSeq(script, peer[k].sent + 1, peer[k].sent + n),
                 ![k].sent = @ + n,
                 ![k].armed = TRUE]
    /\ UNCHANGED <<progVars, histVars, socket, connected, lsnArmed, script, pty, child>>
    /\ UNCHANGED <<bridge, codec>>

\* in Spec the first peer to connect types, the others only watch; what it
\* types arrives in one piece
Typists == {0}

PeerSendAll ==
    \E k \in Typists : PeerSend(k, Len(script))

PeerClose ==
    \E k \in Ids :
        /\ ~Returned
        /\ Attached(k)
        /\ peer[k].state = "open"
        /\ peer' = [peer EXCEPT ![k].state = "closed", ![k].armed = TRUE]
        /\ UNCHANGED <<progVars, histVars, socket, connected, lsnArmed, script, pty, child>>
        /\ UNCHANGED <<bridge, codec>>

\* peer k reads everything the kernel holds for it: the stream has room again
PeerDrain ==
    \E k \in Ids :
        /\ ~Returned
        /\ Attached(k)
        /\ peer[k].state = "open"
        /\ peer[k].unread > 0
        /\ peer[k].drains < MaxDrains
        /\ peer' = [peer EXCEPT
                     ![k].unread = 0,
                     ![k].drains = @ + 1,
                     ![k].armed = @ \/ (k \in DOMAIN clients /\ clients[k].writable)]
        /\ UNCHANGED <<progVars, histVars, socket, connected, lsnArmed, script, pty, child>>
        /\ UNCHANGED <<bridge, codec>>

ChildWrite ==
    /\ ~Returned
    /\ child.st = "running"
    /\ pty.writes < Len(ChildScript)
    /\ pty' = [pty EXCEPT !.out = @ \o ChildScript[pty.writes + 1],
                          !.armed = TRUE, !.writes = @ + 1]
    /\ UNCHANGED <<progVars, histVars, socket, connected, lsnArmed, peer, script, child>>
    /\ UNCHANGED <<bridge, codec>>

\* the child ends; its side of the PTY closes
ChildExit ==
    /\ ~Returned
    /\ child.st = "running"
    /\ \E c \in ChildEnds : child' = c
    /\ pty' = [pty EXCEPT !.armed = TRUE, !.full = FALSE]
    /\ UNCHANGED <<progVars, histVars, socket, connected, lsnArmed, peer, script>>
    /\ UNCHANGED <<bridge, codec>>

\* the child stops reading its terminal and the PTY's input queue fills up
PtyFill ==
    /\ ~Returned
    /\ child.st = "running"
    /\ ~pty.full
    /\ pty' = [pty EXCEPT !.full = TRUE]
    /\ UNCHANGED <<progVars, histVars, socket, connected, lsnArmed, peer, script, child>>
    /\ UNCHANGED <<bridge, codec>>

\* the child reads its terminal again
PtyDrain ==
    /\ ~Returned
    /\ pty.full
    /\ pty' = [pty EXCEPT !.full = FALSE]
    /\ UNCHANGED <<progVars, histVars, socket, connected, lsnArmed, peer, script, child>>
    /\ UNCHANGED <<bridge, codec>>

\* cmd_kill of main.rs: the session directory is removed
RemoveSocket ==
    /\ ~Returned
    /\ socket
    /\ socket' = FALSE
    /\ UNCHANGED <<progVars, histVars, connected, lsnArmed, peer, script, pty, child>>
    /\ UNCHANGED <<bridge, codec>>

ServerStep == LoopTop \/ OnListener \/ OnClient \/ OnPty \/ Reap

Next ==
    \/ LoopTop
    \/ OnListener
    \/ OnClient
    \/ OnPty
    \/ Reap
    \/ PeerConnect
    \/ PeerSendAll
    \/ PeerClose
    \/ PeerDrain
    \/ ChildWrite
    \/ ChildExit
    \/ RemoveSocket

Spec == Init /\ [][Next]_vars

(***************************************************************************)
(* SpecBuf: the ring alone, driven by arbitrary appends.                   *)
(***************************************************************************)
\* the byte values appended to the ring in SpecBuf
BufBytes == {65, 66}

BufInit ==
    /\ \E c \in 1..MaxCap : scrollback = ScrollbackBuffer_new(c)
    /\ appended = <<>>
    /\ lastAppend = 0
    /\ script = <<>>
    /\ ServerInit
    /\ bridge = NoBridge
    /\ codec = NoCodec

BufAppend ==
    /\ \E n \in 0..MaxChunk :
        /\ Len(appended) + n <= MaxTotal
        /\ \E data \in SeqsOfLen(BufBytes, n) :
            /\ scrollback' = append(scrollback, data)
            /\ appended' = appended \o data
            /\ lastAppend' = n
    /\ UNCHANGED <<exited, clients, next_client_id, pc, events, err, envVars,
                   reads, ptyIn, winsize, hist>>
    /\ UNCHANGED <<bridge, codec>>

BufNext == BufAppend

SpecBuf == BufInit /\ [][BufNext]_vars

\* C1: after any sequence of appends of total length T to a ring of capacity
\* C >= 1, get_contents() is exactly the last min(T, C) bytes appended, oldest first.
C1_ContentsAreLastBytes ==
    get_contents(scrollback) =
        LastN(appended, Min(Len(appended), scrollback.capacity))

\* a chunk longer than the capacity was appended to a ring that had already wrapped
C1_Witness ==
    /\ lastAppend > scrollback.capacity
    /\ Len(appended) > lastAppend + scrollback.capacity
    /\ scrollback.write_pos # 0
    /\ C1_ContentsAreLastBytes

\* C32: after any sequence of appends the write cursor is in [0, C) and equals
\* total_written mod C; total_written never decreases, and each append(bytes)
\* increases it by exactly len(bytes), also when len(bytes) > C or
\* len(bytes) = 0 (so it is the number of bytes ever appended).
C32_RingStructure ==
    /\ [](/\ scrollback.write_pos \in 0..(scrollback.capacity - 1)
          /\ scrollback.write_pos =
                 scrollback.total_written % scrollback.capacity
          /\ scrollback.total_written = Len(appended)
          /\ Len(scrollback.buf) = scrollback.capacity)
    /\ [][/\ scrollback'.total_written >= scrollback.total_written
          /\ scrollback'.total_written =
                 scrollback.total_written + (Len(appended') - Len(appended))
          /\ scrollback'.capacity = scrollback.capacity]_vars

\* an append of more bytes than the capacity moved the cursor of a ring of
\* capacity 2 or more to a place other than 0, and total_written counts all
\* of them
C32_Witness ==
    /\ scrollback.capacity >= 2
    /\ lastAppend > scrollback.capacity
    /\ scrollback.total_written = Len(appended)
    /\ scrollback.write_pos = 1
    /\ scrollback.total_written > lastAppend

(***************************************************************************)
(* Spec: the server loop.                                                  *)
(***************************************************************************)
\* the OUTPUT frames of the PTY reads after the first `from` ones
RECURSIVE OutputFrames(_, _)
OutputFrames(rs, from) ==
    IF from >= Len(rs) THEN <<>>
    ELSE encode(server_OUTPUT, rs[from + 1]) \o OutputFrames(rs, from + 1)

\* C2: for every client, what the server has written to its stream is a prefix
\* of the frames produced for it (SCROLLBACK, OUTPUT, EXIT) in generation order.
C2_WireInGenerationOrder ==
    \A k \in Ids : IsPrefix(hist[k].wire, hist[k].produced)

\* C3: a failure confined to one client (here a failed write to its stream)
\* only removes that client: Server::run never returns because of it.
C3_ClientFailureNeverEndsRun ==
    ~(pc = "error" /\ err = "stream")

\* C4: a client is sent exactly one EXIT frame; later loop iterations send no
\* further EXIT frame to a client that already got one.
C4_AtMostOneExitFrame ==
    \A k \in Ids : hist[k].exitSent <= 1

\* C5: a client accepted while the sanitized scrollback is non-empty receives
\* the SCROLLBACK frame first and whole: what is on its stream is a prefix of
\* that frame, or starts with it.
C5_ScrollbackFirstAndWhole ==
    \A k \in Ids :
        hist[k].snapshot # <<>> =>
            \/ IsPrefix(hist[k].wire, hist[k].snapshot)
            \/ IsPrefix(hist[k].snapshot, hist[k].wire)

\* C6: every non-empty PTY read becomes exactly one OUTPUT frame with these
\* bytes, appended to the outbound buffer of every connected client: what was
\* flushed from a client's buffer plus what is still in it is the SCROLLBACK
\* frame of its accept followed by the OUTPUT frames of all reads since then.
C6_OneOutputFramePerRead ==
    \A k \in DOMAIN clients :
        hist[k].flushed \o clients[k].send_buf =
            hist[k].snapshot \o OutputFrames(reads, hist[k].joinedAt)

\* two clients attached before the last two reads, one of them with part of
\* its frames still in send_buf
C6_Witness ==
    /\ Len(reads) = 2
    /\ \E j \in DOMAIN clients, k \in DOMAIN clients :
        /\ j # k
        /\ hist[j].joinedAt = 0
        /\ hist[k].joinedAt = 0
        /\ clients[j].send_buf # <<>>
        /\ hist[j].flushed # <<>>
    /\ C6_OneOutputFramePerRead

\* the chunks rs, one after the other
RECURSIVE Flatten(_)
Flatten(rs) ==
    IF rs = <<>> THEN <<>> ELSE Head(rs) \o Flatten(Tail(rs))

\* C14: in every state of the server the scrollback holds the last min(T, C)
\* bytes of the T bytes read_pty has returned so far, in the order read.
C14_ScrollbackIsTailOfReads ==
    get_contents(scrollback) =
        LastN(Flatten(reads), Min(Len(Flatten(reads)), scrollback.capacity))

\* two reads have put more bytes into the scrollback than it holds
C14_Witness ==
    /\ Len(reads) = 2
    /\ Len(Flatten(reads)) > scrollback.capacity
    /\ get_contents(scrollback) # <<>>
    /\ C14_ScrollbackIsTailOfReads

\* C15: once the exit slot is set, no step changes it or reaps again, and a
\* call of check_exit returns what the slot holds; a call that returns
\* Some(code) is followed by calls that return the same and change nothing;
\* a call that returns None leaves the slot unset.
C15_CheckExitIdempotent ==
    [][LET c == check_exit(exited, child)
           c2 == check_exit(c.exited, c.child)
       IN /\ exited # <<>> =>
                 /\ exited' = exited
                 /\ child' = child
                 /\ c.result = exited
          /\ c.result # <<>> =>
                 /\ c2.result = c.result
                 /\ c2.exited = c.exited
                 /\ c2.child = c.child
          /\ c.result = <<>> => (c.exited = <<>> /\ exited = <<>>)]_vars

\* check_exit has returned Some(7) in two iterations of the loop: a client
\* has been written two EXIT frames
C15_Witness ==
    /\ exited = <<7>>
    /\ child.st = "reaped"
    /\ \E k \in DOMAIN clients : hist[k].exitSent = 2

\* C16: the code recorded is the exit status of a child that exited and
\* 128 + signo of a child killed by signal signo, and the EXIT frame the loop
\* produces carries this code as 4 little-endian bytes; while the child is
\* running no code is recorded and no EXIT frame is produced.
C16_ExitCode ==
    [][LET code == IF exited # <<>> THEN exited[1]
                   ELSE IF child.st = "exited" THEN child.n
                   ELSE IF child.st = "signaled" THEN 128 + child.n
                   ELSE -1
           frame == <<2, 4, 0, 0, 0, code % 256, (code \div 256) % 256,
                      (code \div 65536) % 256, (code \div 16777216) % 256>>
       IN /\ exited' # exited => (code # -1 /\ exited' = <<code>>)
          /\ \A k \in Ids :
                (pc = "reap" /\ hist'[k].produced # hist[k].produced) =>
                    /\ code # -1
                    /\ hist'[k].produced = Trunc(hist[k].produced \o frame, WireMax)
          /\ child'.st = "running" =>
                /\ exited' = <<>>
                /\ \A k \in Ids :
                      IsPrefix(hist'[k].produced,
                               hist'[k].snapshot \o OutputFrames(reads', hist'[k].joinedAt))
      ]_vars

\* the child was killed by signal 9 and a client was sent EXIT with 137
C16_Witness ==
    /\ exited = <<137>>
    /\ \E k \in DOMAIN clients :
          /\ hist[k].produced = <<2, 4, 0, 0, 0, 137, 0, 0, 0>>
          /\ hist[k].wire = hist[k].produced

\* C17: whenever the server loop has read from the PTY master or written to
\* it, the master is in non-blocking mode.
C17_MasterNonBlocking ==
    (reads # <<>> \/ ptyIn # <<>>) => pty.nonblock

\* C18: an error from writing the PTY master while a client's INPUT frame is
\* dispatched never makes Server::run return.
C18_PtyErrorNeverEndsRun ==
    ~(pc = "error" /\ err = "pty")

\* C27: whenever Server::run is about to poll, every source it has handled a
\* readable event for has been read until the read would block or gave end
\* of file: a client's stream or the PTY master that a read would still get
\* bytes or end of file from is one that epoll will report again (something
\* arrived on it after its event was handled).
C27_DrainedBeforePoll ==
    pc = "loop" =>
        /\ pty.out # <<>> => pty.armed
        /\ \A k \in DOMAIN clients :
               stream_readable(World, k) => peer[k].armed

\* C29: whenever Server::run is about to poll, each client is registered for
\* WRITABLE as well as READABLE exactly when its send_buf is not empty; and
\* the bytes a partial write left in send_buf are not stranded: when the
\* stream can take bytes again, epoll has an event for it.
C29_InterestMatchesSendBuf ==
    pc = "loop" =>
        \A k \in DOMAIN clients :
            /\ clients[k].writable <=> clients[k].send_buf # <<>>
            /\ (clients[k].send_buf # <<>> /\ stream_writable(World, k)) =>
                   peer[k].armed

\* the server is about to poll with two clients: one whose last frame was
\* written in part, registered for READABLE and WRITABLE, and one with
\* nothing to send, registered for READABLE only
C29_Witness ==
    /\ pc = "loop"
    /\ \E j \in DOMAIN clients, k \in DOMAIN clients :
        /\ clients[j].send_buf # <<>>
        /\ hist[j].flushed # <<>>
        /\ clients[j].writable
        /\ clients[k].send_buf = <<>>
        /\ ~clients[k].writable

\* C30: client ids are handed out in increasing order and never again: a
\* client that appears has an id from next_client_id on, and every client has
\* an id below next_client_id.  The token of a client is neither LISTENER nor
\* PTY_BASE, is handled by the client arm, and gives the id back when
\* CLIENT_BASE is taken off.  Handling a client event changes no client
\* other than the one of its token, and when that client is no longer in the
\* map it changes nothing at all (a handler that fails ends Server::run, which
\* drops every client: C3, C18).
C30_ClientIdentity ==
    [][/\ next_client_id' >= next_client_id
       /\ \A k \in DOMAIN clients' \ DOMAIN clients :
              k >= next_client_id /\ k < next_client_id'
       /\ \A k \in DOMAIN clients' : k < next_client_id'
       /\ \A k \in 0..(next_client_id' - 1) :
              /\ client_token(k) \notin {LISTENER, PTY_BASE}
              /\ token_arm(client_token(k)) = "client"
              /\ client_id(client_token(k)) = k
       /\ \A e \in events' :
              \/ e.token \in {LISTENER, PTY_BASE}
              \/ \E k \in 0..(next_client_id' - 1) : e.token = client_token(k)
       /\ \A e \in events :
              (/\ pc = "events"
               /\ pc' \in {"events", "reap"}
               /\ token_arm(e.token) = "client"
               /\ events' = events \ {e}) =>
                  /\ \A k \in DOMAIN clients \ {client_id(e.token)} :
                         k \in DOMAIN clients' /\ clients'[k] = clients[k]
                  /\ client_id(e.token) \notin DOMAIN clients =>
                         UNCHANGED <<clients, peer, hist, ptyIn, winsize,
                                     scrollback, next_client_id>>
      ]_vars

\* in one batch of events client 0 was removed while the PTY's event was
\* handled (its stream was closed), client 1 is attached, and the event with
\* the token of client 0 is still to be handled
C30_Witness ==
    /\ pc = "events"
    /\ next_client_id = 2
    /\ DOMAIN clients = {1}
    /\ \E e \in events : e.token = client_token(0)

\* C33: no OUTPUT frame is sent to a client after its EXIT frame, and the PTY
\* output forwarded to it precedes the EXIT frame on its stream: once an EXIT
\* frame has been written whole to a client's stream, no byte of an OUTPUT
\* frame (a byte of its send_buf past the SCROLLBACK frame) is written to it.
C33_NoOutputAfterExit ==
    [][\A k \in Ids :
          (hist[k].exitSent >= 1 /\ hist'[k].flushed # hist[k].flushed) =>
              Len(hist'[k].flushed) <= Len(hist[k].snapshot)]_vars

\* the bytes read from the PTY before client k was accepted that the ring
\* still held then
InRingAtAccept(k) ==
    LET before == Flatten(SubSeq(reads, 1, hist[k].joinedAt))
    IN LastN(before, Min(Len(before), scrollback.capacity))

C9_SocketFileRemoved ==
    Returned => ~socket

\* run has returned with an error, and the socket file is gone
C9_Witness ==
    /\ pc = "error"
    /\ ~socket

(***************************************************************************)
(* SpecParse: one attached client whose peer sends a byte stream in pieces *)
(* of any size; the loop polls, reads and parses.                          *)
(***************************************************************************)
\* the frames a stream is made of: INPUT "a", INPUT "bc", RESIZE to 100 x 40,
\* RESIZE to 300 x 50 with one more byte of payload, RESIZE with a payload of
\* one byte, DETACH, and a frame of the unknown type 9
ParseFrames ==
    {encode(client_INPUT, <<97>>), encode(client_INPUT, <<98, 99>>),
     encode(client_RESIZE, encode_resize(100, 40)),
     encode(client_RESIZE, encode_resize(300, 50) \o <<9>>),
     encode(client_RESIZE, <<7>>),
     encode(client_DETACH, <<>>), encode(9, <<5>>)}

MaxFrames == 2
MaxStream == 16

RECURSIVE FrameStreams(_)
FrameStreams(n) ==
    IF n = 0 THEN {<<>>}
    ELSE FrameStreams(n - 1) \cup
         {s \o f : s \in FrameStreams(n - 1), f \in ParseFrames}

\* every stream of up to MaxFrames frames, cut off anywhere
ParseStreams ==
    {Trunc(s, n) : s \in FrameStreams(MaxFrames), n \in 0..MaxStream}

\* the state after the first peer was accepted with an empty scrollback
ParseInit ==
    /\ scrollback = ScrollbackBuffer_new(ScrollCap)
    /\ appended = <<>>
    /\ lastAppend = 0
    /\ script \in ParseStreams
    /\ exited = <<>>
    /\ clients = (0 :> [recv_buf |-> <<>>, send_buf |-> <<>>, writable |-> FALSE])
    /\ next_client_id = 1
    /\ pc = "loop"
    /\ events = {}
    /\ err = ""
    /\ socket = TRUE
    /\ connected = 1
    /\ lsnArmed = FALSE
    /\ peer = [k \in Ids |-> IF k = 0 THEN [NoPeer EXCEPT !.state = "open"] ELSE NoPeer]
    /\ pty = Pty_spawn
    /\ child = [st |-> "running", n |-> 0]
    /\ reads = <<>>
    /\ ptyIn = <<>>
    /\ winsize = InitialWinsize
    /\ hist = [k \in Ids |-> NoHist]
    /\ bridge = NoBridge
    /\ codec = NoCodec

\* the peer sends the next bytes of its stream, any number of them
ParseSend ==
    \E n \in 1..MaxStream : PeerSend(0, n)

ParseNext ==
    \/ LoopTop
    \/ OnClient
    \/ Reap
    \/ ParseSend

SpecParse == ParseInit /\ [][ParseNext]_vars

\* Server::process_client_recv_buf on a client that has just been accepted
\* and holds the whole stream in recv_buf
ParseWhole(stream) ==
    process_client_recv_buf(
        [clients |-> (0 :> [recv_buf |-> stream, send_buf |-> <<>>, writable |-> FALSE]),
         peer |-> [k \in Ids |-> NoPeer],
         hist |-> [k \in Ids |-> NoHist],
         ptyIn |-> <<>>, winsize |-> InitialWinsize, ok |-> TRUE, err |-> ""],
        0, TRUE)

\* the payloads of the INPUT frames of fs, in order
RECURSIVE InputPayloads(_)
InputPayloads(fs) ==
    IF fs = <<>> THEN <<>>
    ELSE (IF Head(fs).type = client_INPUT THEN Head(fs).payload ELSE <<>>)
         \o InputPayloads(Tail(fs))

\* C10: however the client's byte stream is split across reads, the frames
\* dispatched so far, the bytes written to the PTY and the window size are
\* those of parsing everything received at once; what stays in recv_buf is
\* the incomplete frame at the end, and the INPUT payloads reach the PTY in
\* stream order.
C10_ParsingIgnoresChunking ==
    0 \in DOMAIN clients =>
        LET whole == ParseWhole(hist[0].received)
            rest == clients[0].recv_buf
        IN /\ hist[0].dispatched = whole.hist[0].dispatched
           /\ rest = whole.clients[0].recv_buf
           /\ \/ Len(rest) < HEADER_SIZE
              \/ Len(rest) < HEADER_SIZE + decode_header(SubSeq(rest, 1, HEADER_SIZE))[2]
           /\ ptyIn = whole.ptyIn
           /\ ptyIn = InputPayloads(hist[0].dispatched)
           /\ winsize = whole.winsize

\* two frames were dispatched, an INPUT among them, after a read had ended
\* inside a frame; nothing is left in recv_buf
C10_Witness ==
    /\ hist[0].partial
    /\ Len(hist[0].dispatched) = 2
    /\ ptyIn # <<>>
    /\ clients[0].recv_buf = <<>>
    /\ C10_ParsingIgnoresChunking

\* the window size after the frames fs, starting from ws: each RESIZE frame
\* with at least 4 bytes of payload sets it to what its first 4 bytes say
RECURSIVE WinsizeAfter(_, _)
WinsizeAfter(fs, ws) ==
    IF fs = <<>> THEN ws
    ELSE LET f == Head(fs)
             p == f.payload
         IN WinsizeAfter(Tail(fs),
                IF f.type = client_RESIZE /\ Len(p) >= 4
                THEN <<p[1] + 256 * p[2], p[3] + 256 * p[4]>>
                ELSE ws)

\* the frames fs as they are on the stream
RECURSIVE EncodeAll(_)
EncodeAll(fs) ==
    IF fs = <<>> THEN <<>>
    ELSE encode(Head(fs).type, Head(fs).payload) \o EncodeAll(Tail(fs))

\* C11: the window size is that of the last RESIZE frame with at least 4 bytes
\* of payload (its first 4 bytes); a shorter RESIZE, a DETACH and a frame of
\* unknown type change neither the PTY (its window size and its input), nor
\* the scrollback, nor the client set, and the frames after them are still
\* dispatched: the frames dispatched and the bytes left in recv_buf make up
\* all that was received.
C11_FrameEffects ==
    /\ winsize = WinsizeAfter(hist[0].dispatched, InitialWinsize)
    /\ ptyIn = InputPayloads(hist[0].dispatched)
    /\ scrollback = ScrollbackBuffer_new(ScrollCap)
    /\ DOMAIN clients = {0}
    /\ EncodeAll(hist[0].dispatched) \o clients[0].recv_buf = hist[0].received

\* a RESIZE frame with a payload of one byte, then the RESIZE frame with a
\* payload of 5 bytes, have been dispatched
C11_Witness ==
    /\ Len(hist[0].dispatched) = 2
    /\ hist[0].dispatched[1] = [type |-> client_RESIZE, payload |-> <<7>>]
    /\ hist[0].dispatched[2].type = client_RESIZE
    /\ Len(hist[0].dispatched[2].payload) = 5
    /\ winsize = <<300, 50>>
    /\ C11_FrameEffects

(***************************************************************************)
(* SpecSan: the child has written some bytes and the server has read them  *)
(* into the scrollback; then peers attach and are sent the replay.         *)
(***************************************************************************)
\* what the child's output is made of: CSI (ESC [), ESC, "0", "?", "c", "n",
\* "m", and a line feed
SanTokens ==
    {<<27, 91>>, <<27>>, <<48>>, <<63>>, <<99>>, <<110>>, <<109>>, <<10>>}

MaxTokens == 4

RECURSIVE TokenStreams(_)
TokenStreams(n) ==
    IF n = 0 THEN {<<>>}
    ELSE TokenStreams(n - 1) \cup
         {s \o t : s \in TokenStreams(n - 1), t \in SanTokens}

SanInit ==
    /\ \E data \in TokenStreams(MaxTokens) :
        /\ scrollback = read_pty(ScrollbackBuffer_new(ScrollCap), data)
        /\ appended = data
        /\ lastAppend = Len(data)
        /\ reads = IF data = <<>> THEN <<>> ELSE <<data>>
    /\ script = PeerScript
    /\ exited = <<>>
    /\ clients = EmptyMap
    /\ next_client_id = 0
    /\ pc = "loop"
    /\ events = {}
    /\ err = ""
    /\ socket = TRUE
    /\ connected = 0
    /\ lsnArmed = FALSE
    /\ peer = [k \in Ids |-> NoPeer]
    /\ pty = Pty_spawn
    /\ child = [st |-> "running", n |-> 0]
    /\ ptyIn = <<>>
    /\ winsize = InitialWinsize
    /\ hist = [k \in Ids |-> NoHist]
    /\ bridge = NoBridge
    /\ codec = NoCodec

SanNext ==
    \/ PeerConnect
    \/ LoopTop
    \/ OnListener
    \/ Reap

SpecSan == SanInit /\ [][SanNext]_vars

\* the 0-based index of the first byte at or after j that is no CSI parameter
\* byte (0x20..=0x3f), or the length of data when there is none
RECURSIVE ParamEnd(_, _)
ParamEnd(data, j) ==
    IF j >= Len(data) THEN Len(data)
    ELSE IF data[j + 1] >= 32 /\ data[j + 1] <= 63 THEN ParamEnd(data, j + 1)
    ELSE j

\* a complete CSI sequence starts at the 0-based index i: ESC, "[", parameter
\* bytes, then a final byte in 0x40..=0x7e
IsCsiAt(data, i) ==
    /\ i + 1 < Len(data)
    /\ data[i + 1] = 27
    /\ data[i + 2] = 91
    /\ ParamEnd(data, i + 2) < Len(data)
    /\ data[ParamEnd(data, i + 2) + 1] >= 64
    /\ data[ParamEnd(data, i + 2) + 1] <= 126

\* data from the 0-based index i on, without the complete CSI sequences whose
\* final byte is "n" or "c"
RECURSIVE StripQueries(_, _)
StripQueries(data, i) ==
    IF i >= Len(data) THEN <<>>
    ELSE IF IsCsiAt(data, i)
    THEN LET j == ParamEnd(data, i + 2)
         IN (IF data[j + 1] \in {110, 99} THEN <<>> ELSE SubSeq(data, i + 1, j + 1))
            \o StripQueries(data, j + 1)
    ELSE <<data[i + 1]>> \o StripQueries(data, i + 1)

\* the SCROLLBACK frame of a replay payload: none when the payload is empty
ReplayFrame(payload) ==
    IF payload = <<>> THEN <<>> ELSE encode(server_SCROLLBACK, payload)

\* C12: the replay sent to a client is the scrollback without the complete CSI
\* sequences (ESC [, parameter bytes in 0x20..=0x3f, final byte in 0x40..=0x7e)
\* whose final byte is "n" or "c"; every other byte is kept, in order.
C12_StripsEveryQuery ==
    \A k \in DOMAIN clients :
        hist[k].snapshot = ReplayFrame(StripQueries(get_contents(scrollback), 0))

\* s is a CSI without final byte: ESC, "[", then parameter bytes only
IsTruncatedCsi(s) ==
    /\ Len(s) >= 2
    /\ s[1] = 27
    /\ s[2] = 91
    /\ \A n \in 3..Len(s) : s[n] >= 32 /\ s[n] <= 63

\* C13: when the scrollback ends in a CSI without final byte, the replay ends
\* with these bytes as they are, after the sanitized bytes before them.
C13_TruncatedCsiKept ==
    \A k \in DOMAIN clients :
        LET data == get_contents(scrollback)
        IN \A n \in 0..Len(data) :
            IsTruncatedCsi(SliceFrom(data, n)) =>
                hist[k].snapshot =
                    encode(server_SCROLLBACK,
                           sanitize_scrollback_for_replay(SubSeq(data, 1, n))
                               \o SliceFrom(data, n))

\* a client was sent a replay of a scrollback that holds a status query and
\* ends in a CSI with a parameter byte and no final byte
C13_Witness ==
    /\ 0 \in DOMAIN clients
    /\ get_contents(scrollback) = <<27, 91, 110, 27, 91, 48>>
    /\ hist[0].snapshot = encode(server_SCROLLBACK, <<27, 91, 48>>)
    /\ C13_TruncatedCsiKept

(***************************************************************************)
(* FairSpec: the server loop keeps running.  Server::run is one thread     *)
(* that is always scheduled and, inside Session::write_pty, retries        *)
(* without pause: a step of it that is possible again and again is         *)
(* eventually taken.  Nothing obliges a peer, the child or the user to act.*)
(* The child writes nothing here, and it may stop reading its terminal.    *)
(***************************************************************************)
FairNext ==
    \/ LoopTop
    \/ OnListener
    \/ OnClient
    \/ OnPty
    \/ Reap
    \/ PeerConnect
    \/ PeerSendAll
    \/ PeerClose
    \/ ChildExit
    \/ PtyFill
    \/ PtyDrain
    \/ RemoveSocket

FairSpec == Init /\ [][FairNext]_vars /\ SF_vars(ServerStep)

\* C7: once the child's exit has been observed and every peer has closed its
\* stream, Server::run eventually returns.
C7_WindDown ==
    (exited # <<>> /\ \A k \in Ids : peer[k].state = "closed") ~> Returned

\* C28: Server::run waits only inside poll: no event it has to handle is one
\* whose handler would stay in write_pty until the child reads its terminal.
C28_WaitsOnlyInPoll ==
    pc = "events" => \A e \in events : ~StuckInWritePty(e)

\* C8: any removal of the socket file while the server runs is eventually
\* followed by Server::run returning.
C8_RemovalEndsRun ==
    (~socket) ~> Returned

(***************************************************************************)
(* The bridge: src/src/bridge.rs                                           *)
(*                                                                         *)
(* bridge is a record B:                                                   *)
(*   pc         "loop" inside the main loop, "returned" after it           *)
(*   recv_buf   recv_buf of bridge::run                                    *)
(*   exit_code  exit_code of bridge::run                                   *)
(*   result     <<>>, or <<code>> once run has returned Ok(code)           *)
(*   stdout     the bytes written to stdout, in order                      *)
(*   toDaemon   the bytes written to the socket, in order                  *)
(*   sock       the bytes the daemon has sent and the bridge has not read  *)
(*   daemon     "open", or "closed" once the daemon has dropped the stream *)
(*   sent       how many bytes of its stream the daemon has sent           *)
(*   stdin      "open", "eof", or "error" (reads of stdin fail)            *)
(*   received   history: all bytes read from the socket                    *)
(*   tty        isatty(stdin)                                              *)
(*   attrs      the terminal attributes of stdin now ("none": no terminal) *)
(*   original   history: the terminal attributes when run was entered      *)
(*   guard      <<>>, or <<a>> while a RawModeGuard holding a is alive     *)
(*   winsize    what get_winsize(stdout) gives: <<cols, rows>>, or <<>>    *)
(*              when the ioctl fails                                       *)
(*   err        "none", or the step whose error run returned               *)
(*   keys       the bytes typed on stdin and not read yet                  *)
(*   typed      how many bytes have been typed                             *)
(*   stdoutOk   FALSE once writes to stdout fail                           *)
(*   tried      history: the type of every frame handed to                 *)
(*              socket.write_all, in order                                 *)
(*   startsize  history: winsize when run was entered                      *)
(*   sigwinch   SIGWINCH_RECEIVED                                          *)
(*   wake       how many bytes the self-pipe holds                         *)
(*   winched    how many window-change signals were delivered              *)
(* pc is "start" on entry of run, "loop" inside the main loop, "returned"  *)
(* after Ok(exit_code) and "failed" after Err(e).                          *)
(***************************************************************************)
\* i32::from_le_bytes
i32_from_le_bytes(b) ==
    IF b[4] >= 128
    THEN from_le_bytes(<<b[1], b[2], b[3], b[4] - 128>>) - 2147483647 - 1
    ELSE from_le_bytes(b)

\* socket.write_all(&msg) is Ok unless the daemon has dropped the stream
socket_write_ok(B) ==
    B.daemon = "open"

\* socket.write_all(&msg): the bytes reach the daemon unless it has dropped
\* the stream
bridge_send(B, msg) ==
    [B EXCEPT !.tried = Append(@, msg[1]),
              !.toDaemon = IF socket_write_ok(B) THEN @ \o msg ELSE @]

\* a RawModeGuard that forgets the attributes it saved
RawModeGuard_forget(B) ==
    [B EXCEPT !.guard = <<>>]

\* Drop for RawModeGuard, run when _raw_guard goes out of scope: tcsetattr
\* with the saved attributes; nothing when run holds None
RawModeGuard_drop(B) ==
    IF B.guard = <<>> THEN B
    ELSE [B EXCEPT !.attrs = B.guard[1], !.guard = <<>>]

\* `return Err(e)` and the `?` operator in run
bridge_fail(B, step) ==
    [RawModeGuard_drop(B) EXCEPT !.pc = "failed", !.err = step]

\* the return after the main loop without the DETACH frame
bridge_return_no_detach(B) ==
    [RawModeGuard_drop(B) EXCEPT !.pc = "returned", !.result = <<B.exit_code>>]

\* after the main loop: a DETACH frame, then Ok(exit_code)
bridge_return(B) ==
    [RawModeGuard_drop(bridge_send(B, encode(client_DETACH, <<>>))) EXCEPT
        !.pc = "returned", !.result = <<B.exit_code>>]

\* the `while offset + HEADER_SIZE <= recv_buf.len()` loop of the TOKEN_SOCKET
\* arm; brk says that it left the main loop
RECURSIVE bridge_frames(_, _, _)
bridge_frames(B, recv_buf, offset) ==
    IF ~(offset + HEADER_SIZE <= Len(recv_buf))
    THEN [B |-> B, offset |-> offset, brk |-> FALSE]
    ELSE LET header == SubSeq(recv_buf, offset + 1, offset + HEADER_SIZE)
             msg_type == decode_header(header)[1]
             payload_len == decode_header(header)[2]
             next == offset + HEADER_SIZE + payload_len
             payload == SubSeq(recv_buf, offset + HEADER_SIZE + 1, next)
         IN IF next > Len(recv_buf)
            THEN [B |-> B, offset |-> offset, brk |-> FALSE]
            ELSE CASE msg_type \in {server_OUTPUT, server_SCROLLBACK} ->
                        IF B.stdoutOk
                        THEN bridge_frames([B EXCEPT !.stdout = @ \o payload],
                                           recv_buf, next)
                        ELSE [B |-> B, offset |-> next, brk |-> TRUE]
                   [] msg_type = server_EXIT ->
                        [B |-> IF Len(payload) >= 4
                               THEN [B EXCEPT !.exit_code =
                                        i32_from_le_bytes(SubSeq(payload, 1, 4))]
                               ELSE B,
                         offset |-> next, brk |-> TRUE]
                   [] OTHER -> bridge_frames(B, recv_buf, next)

\* the TOKEN_SOCKET arm: read until the socket would block, then handle the
\* complete frames; a read of 0 bytes (the daemon has dropped the stream)
\* leaves the main loop at once
bridge_on_socket(B) ==
    LET B1 == [B EXCEPT !.recv_buf = @ \o B.sock,
                        !.received = @ \o B.sock,
                        !.sock = <<>>]
        r == bridge_frames(B1, B1.recv_buf, 0)
    IN IF B.daemon = "closed" THEN bridge_return(B1)
       ELSE IF r.brk THEN bridge_return(r.B)
       ELSE [r.B EXCEPT !.recv_buf = SliceFrom(B1.recv_buf, r.offset)]

\* the TOKEN_STDIN arm at end of input: a DETACH frame, and out of the loop
bridge_on_stdin_eof(B) ==
    bridge_return(bridge_send(B, encode(client_DETACH, <<>>)))

\* the TOKEN_STDIN arm: the bytes typed go out as an INPUT frame (they fit
\* stdin_buf, so one read takes them all), and the read after them gives
\* EAGAIN, end of input or an error; a failed write leaves the main loop
bridge_on_stdin(B) ==
    LET sent == IF B.keys = <<>> THEN B
                ELSE [bridge_send(B, encode(client_INPUT, B.keys)) EXCEPT
                         !.keys = <<>>]
    IN IF B.keys # <<>> /\ ~socket_write_ok(B) THEN bridge_return(sent)
       ELSE IF B.stdin = "eof" THEN bridge_on_stdin_eof(sent)
       ELSE IF B.stdin = "error" THEN bridge_return(sent)
       ELSE sent

\* sigwinch_handler: store the flag, write one byte to the self-pipe
sigwinch_handler(B) ==
    [B EXCEPT !.sigwinch = TRUE, !.wake = @ + 1]

\* the TOKEN_WAKE arm: drain the pipe, swap the flag to false and, if it was
\* set and the size can be queried, send a RESIZE frame with the size
bridge_on_wake(B) ==
    LET drained == [B EXCEPT !.wake = 0, !.sigwinch = FALSE]
    IN IF B.sigwinch /\ B.winsize # <<>>
       THEN bridge_send(drained,
                        encode(client_RESIZE,
                               encode_resize(B.winsize[1], B.winsize[2])))
       ELSE drained

\* run without the RESIZE frame that follows the connect
bridge_start_no_resize(B, fail) ==
    LET entered == IF B.tty
                   THEN [B EXCEPT !.guard = <<B.attrs>>, !.attrs = "raw"]
                   ELSE B
    IN IF B.tty /\ fail \in {"tcgetattr", "tcsetattr"} THEN bridge_fail(B, fail)
       ELSE IF fail \in {"pipe", "connect", "poll", "register"}
       THEN bridge_fail(entered, fail)
       ELSE [entered EXCEPT !.pc = "loop"]

\* run from its entry to the first poll; fail names the step that fails,
\* "none" when every step succeeds
bridge_start(B, fail) ==
    LET entered == IF B.tty
                   THEN [B EXCEPT !.guard = <<B.attrs>>, !.attrs = "raw"]
                   ELSE B
        resize == encode(client_RESIZE,
                         encode_resize(B.winsize[1], B.winsize[2]))
    IN IF B.tty /\ fail \in {"tcgetattr", "tcsetattr"} THEN bridge_fail(B, fail)
       ELSE IF fail \in {"pipe", "connect", "poll", "register"}
       THEN bridge_fail(entered, fail)
       ELSE IF B.winsize = <<>> THEN [entered EXCEPT !.pc = "loop"]
       ELSE IF fail = "write"
       THEN bridge_fail([entered EXCEPT !.tried = Append(@, client_RESIZE),
                                        !.daemon = "closed"], fail)
       ELSE [bridge_send(entered, resize) EXCEPT !.pc = "loop"]

(***************************************************************************)
(* SpecBridge: one bridge attached to a daemon that sends a stream of      *)
(* frames in pieces of any size and may drop the stream at any moment;     *)
(* the user may close the bridge's stdin.                                  *)
(***************************************************************************)
\* the frames the daemon's stream is made of: OUTPUT "h", SCROLLBACK "s",
\* EXIT with code 7, and a frame of the unknown type 9
DaemonFrames ==
    {encode(server_OUTPUT, <<104>>), encode(server_SCROLLBACK, <<115>>),
     encode(server_EXIT, to_le_bytes(7, 4)), encode(9, <<5>>)}

RECURSIVE StreamsOf(_, _)
StreamsOf(F, n) ==
    IF n = 0 THEN {<<>>}
    ELSE StreamsOf(F, n - 1) \cup {s \o f : s \in StreamsOf(F, n - 1), f \in F}

\* every stream of up to MaxFrames frames, cut off anywhere
DaemonStreams ==
    {Trunc(s, n) : s \in StreamsOf(DaemonFrames, MaxFrames), n \in 0..MaxStream}

\* bridge::run has connected, sent the RESIZE frame with the size of its
\* terminal, and is about to poll for the first time
BridgeInit ==
    /\ bridge = [pc |-> "loop", recv_buf |-> <<>>, exit_code |-> 0, result |-> <<>>,
                 stdout |-> <<>>,
                 toDaemon |-> encode(client_RESIZE,
                                     encode_resize(InitialWinsize[1], InitialWinsize[2])),
                 sock |-> <<>>, daemon |-> "open", sent |-> 0, stdin |-> "open",
                 received |-> <<>>,
                 tty |-> TRUE, attrs |-> "raw", original |-> "cooked",
                 guard |-> <<"cooked">>, winsize |-> InitialWinsize,
                 err |-> "none", keys |-> <<>>, typed |-> 0, stdoutOk |-> TRUE,
                 tried |-> <<client_RESIZE>>, startsize |-> InitialWinsize,
                 sigwinch |-> FALSE, wake |-> 0, winched |-> 0]
    /\ codec = NoCodec
    /\ script \in DaemonStreams
    /\ scrollback = ScrollbackBuffer_new(ScrollCap)
    /\ appended = <<>>
    /\ lastAppend = 0
    /\ ServerInit

\* the daemon sends the next bytes of its stream, any number of them
DaemonSend ==
    /\ bridge.pc = "loop"
    /\ bridge.daemon = "open"
    /\ \E n \in 1..MaxStream :
        /\ bridge.sent + n <= Len(script)
        /\ bridge' = [bridge EXCEPT
                        !.sock = @ \o SubSeq(script, bridge.sent + 1, bridge.sent + n),
                        !.sent = @ + n]
    /\ UNCHANGED <<progVars, envVars, histVars, codec>>

\* Server::run returns and the server is dropped: the stream is closed
DaemonClose ==
    /\ bridge.pc = "loop"
    /\ bridge.daemon = "open"
    /\ bridge' = [bridge EXCEPT !.daemon = "closed"]
    /\ UNCHANGED <<progVars, envVars, histVars, codec>>

\* the user closes the bridge's stdin
StdinClose ==
    /\ bridge.pc = "loop"
    /\ bridge.stdin = "open"
    /\ bridge' = [bridge EXCEPT !.stdin = "eof"]
    /\ UNCHANGED <<progVars, envVars, histVars, codec>>

\* TOKEN_SOCKET => ...
BridgeOnSocket ==
    /\ bridge.pc = "loop"
    /\ bridge.sock # <<>> \/ bridge.daemon = "closed"
    /\ bridge' = bridge_on_socket(bridge)
    /\ UNCHANGED <<progVars, envVars, histVars, codec>>

\* TOKEN_STDIN => ...
BridgeOnStdin ==
    /\ bridge.pc = "loop"
    /\ bridge.keys # <<>> \/ bridge.stdin # "open"
    /\ bridge' = bridge_on_stdin(bridge)
    /\ UNCHANGED <<progVars, envVars, histVars, codec>>

BridgeNext ==
    \/ DaemonSend
    \/ DaemonClose
    \/ StdinClose
    \/ BridgeOnSocket
    \/ BridgeOnStdin

SpecBridge == BridgeInit /\ [][BridgeNext]_vars

\* the complete frames at the start of stream, from the 0-based offset on
RECURSIVE FramesOf(_, _)
FramesOf(stream, offset) ==
    IF offset + HEADER_SIZE > Len(stream) THEN <<>>
    ELSE LET len == stream[offset + 2] + 256 * stream[offset + 3]
                    + 65536 * stream[offset + 4] + 16777216 * stream[offset + 5]
             next == offset + HEADER_SIZE + len
         IN IF next > Len(stream) THEN <<>>
            ELSE <<[type |-> stream[offset + 1],
                    payload |-> SubSeq(stream, offset + HEADER_SIZE + 1, next)]>>
                 \o FramesOf(stream, next)

\* the code of the first EXIT frame of fs, 0 when there is none
RECURSIVE ExitCodeOf(_)
ExitCodeOf(fs) ==
    IF fs = <<>> THEN 0
    ELSE IF Head(fs).type = server_EXIT
    THEN i32_from_le_bytes(SubSeq(Head(fs).payload, 1, 4))
    ELSE ExitCodeOf(Tail(fs))

\* the payloads of the OUTPUT and SCROLLBACK frames of fs before its first
\* EXIT frame, in order
RECURSIVE StdoutOf(_)
StdoutOf(fs) ==
    IF fs = <<>> \/ Head(fs).type = server_EXIT THEN <<>>
    ELSE (IF Head(fs).type \in {server_OUTPUT, server_SCROLLBACK}
          THEN Head(fs).payload ELSE <<>>)
         \o StdoutOf(Tail(fs))

\* C19: bridge::run returns the code of the EXIT frame when a complete EXIT
\* frame is among the bytes it has read from the socket, and 0 when there is
\* none.
C19_ExitCodeReturned ==
    bridge.pc = "returned" =>
        bridge.result = <<ExitCodeOf(FramesOf(bridge.received, 0))>>

\* C20: when bridge::run returns, the payloads of all complete OUTPUT and
\* SCROLLBACK frames it has read from the socket before an EXIT frame have
\* been written to stdout, unmodified and in order, and nothing else has.
C20_OutputReachesStdout ==
    /\ IsPrefix(bridge.stdout, StdoutOf(FramesOf(bridge.received, 0)))
    /\ bridge.pc = "returned" =>
           bridge.stdout = StdoutOf(FramesOf(bridge.received, 0))

(***************************************************************************)
(* SpecAttach: bridge::run from its entry to its return.  The terminal the *)
(* bridge is started on, the step of the setup that fails (if any), what   *)
(* the user types, and the moment stdin ends or fails, stdout fails, poll  *)
(* fails or the daemon drops the stream are all free.                      *)
(***************************************************************************)
\* how many bytes the user types
MaxKeys == 2
\* how many times the user resizes the window
MaxWinch == 1

\* what the bridge is started on: no terminal at all; a terminal in its
\* usual mode, 100 x 40; a terminal whose attributes were changed before,
\* 300 x 50; and a terminal on stdin while stdout is redirected to a file
Terminals ==
    {[tty |-> FALSE, attrs |-> "none", winsize |-> <<>>],
     [tty |-> TRUE, attrs |-> "cooked", winsize |-> <<100, 40>>],
     [tty |-> TRUE, attrs |-> "cbreak", winsize |-> <<300, 50>>],
     [tty |-> TRUE, attrs |-> "cooked", winsize |-> <<>>]}

\* the steps of the setup that can fail
StartSteps ==
    {"none", "tcgetattr", "tcsetattr", "pipe", "connect", "poll", "register",
     "write"}

\* what the daemon sends: nothing, or OUTPUT "h" and EXIT with code 7
AttachStreams ==
    {<<>>, encode(server_OUTPUT, <<104>>) \o encode(server_EXIT, to_le_bytes(7, 4))}

\* run is entered
AttachInit ==
    /\ \E t \in Terminals :
        bridge = [pc |-> "start", recv_buf |-> <<>>, exit_code |-> 0,
                  result |-> <<>>, stdout |-> <<>>, toDaemon |-> <<>>,
                  sock |-> <<>>, daemon |-> "open", sent |-> 0, stdin |-> "open",
                  received |-> <<>>,
                  tty |-> t.tty, attrs |-> t.attrs, original |-> t.attrs,
                  guard |-> <<>>, winsize |-> t.winsize,
                  err |-> "none", keys |-> <<>>, typed |-> 0, stdoutOk |-> TRUE,
                  tried |-> <<>>, startsize |-> t.winsize,
                  sigwinch |-> FALSE, wake |-> 0, winched |-> 0]
    /\ codec = NoCodec
    /\ script \in AttachStreams
    /\ scrollback = ScrollbackBuffer_new(ScrollCap)
    /\ appended = <<>>
    /\ lastAppend = 0
    /\ ServerInit

\* run, up to `'main: loop`
BridgeStart ==
    /\ bridge.pc = "start"
    /\ \E fail \in StartSteps : bridge' = bridge_start(bridge, fail)
    /\ UNCHANGED <<progVars, envVars, histVars, codec>>

\* the user types a key
StdinType ==
    /\ bridge.pc \in {"start", "loop"}
    /\ bridge.stdin = "open"
    /\ bridge.typed < MaxKeys
    /\ bridge' = [bridge EXCEPT !.keys = Append(@, 97 + bridge.typed),
                                !.typed = @ + 1]
    /\ UNCHANGED <<progVars, envVars, histVars, codec>>

\* reads of stdin start to fail (the terminal is gone)
StdinError ==
    /\ bridge.pc = "loop"
    /\ bridge.stdin = "open"
    /\ bridge' = [bridge EXCEPT !.stdin = "error"]
    /\ UNCHANGED <<progVars, envVars, histVars, codec>>

\* writes to stdout start to fail
StdoutBreak ==
    /\ bridge.pc = "loop"
    /\ bridge.stdoutOk
    /\ bridge' = [bridge EXCEPT !.stdoutOk = FALSE]
    /\ UNCHANGED <<progVars, envVars, histVars, codec>>

\* the user resizes the window: the terminal on stdout gets its other size
\* and the process gets SIGWINCH
Sigwinch ==
    /\ bridge.pc = "loop"
    /\ bridge.winched < MaxWinch
    /\ bridge' = [sigwinch_handler(bridge) EXCEPT
                     !.winched = @ + 1,
                     !.winsize = IF @ = <<>> THEN <<>>
                                 ELSE IF @ = <<100, 40>> THEN <<300, 50>>
                                 ELSE <<100, 40>>]
    /\ UNCHANGED <<progVars, envVars, histVars, codec>>

\* TOKEN_WAKE => ...
BridgeOnWake ==
    /\ bridge.pc = "loop"
    /\ bridge.wake > 0
    /\ bridge' = bridge_on_wake(bridge)
    /\ UNCHANGED <<progVars, envVars, histVars, codec>>

\* poll.poll fails with an error other than Interrupted: `return Err(e)`
BridgePollError ==
    /\ bridge.pc = "loop"
    /\ bridge' = bridge_fail(bridge, "poll.poll")
    /\ UNCHANGED <<progVars, envVars, histVars, codec>>

AttachNext ==
    \/ BridgeStart
    \/ StdinType
    \/ StdinClose
    \/ StdinError
    \/ StdoutBreak
    \/ DaemonSend
    \/ DaemonClose
    \/ BridgeOnSocket
    \/ BridgeOnStdin
    \/ Sigwinch
    \/ BridgeOnWake
    \/ BridgePollError

SpecAttach == AttachInit /\ [][AttachNext]_vars

\* C21 (as amended): when the size of the terminal on stdout can be queried,
\* the first frame bridge::run hands to the socket is a RESIZE frame, the
\* first bytes on the socket are that frame carrying the size queried, and
\* so no INPUT or DETACH frame goes before it.
C21_FirstFrameIsResize ==
    (bridge.pc # "start" /\ bridge.startsize # <<>>) =>
        /\ bridge.tried # <<>> => bridge.tried[1] = client_RESIZE
        /\ bridge.toDaemon # <<>> =>
               IsPrefix(encode(client_RESIZE,
                               encode_resize(bridge.startsize[1],
                                             bridge.startsize[2])),
                        bridge.toDaemon)
        /\ bridge.pc = "loop" => bridge.toDaemon # <<>>

\* on a terminal of 300 x 50 the bridge has sent RESIZE(300, 50) and then
\* the key typed as an INPUT frame
C21_Witness ==
    /\ bridge.pc = "loop"
    /\ bridge.startsize = <<300, 50>>
    /\ bridge.toDaemon = encode(client_RESIZE, <<44, 1, 50, 0>>)
                            \o encode(client_INPUT, <<97>>)

\* C21 (as stated): the first frame the bridge sends on the socket is a
\* RESIZE frame; no INPUT or DETACH frame is ever sent before it.
C21_FirstFrameAlwaysResize ==
    bridge.tried # <<>> => bridge.tried[1] = client_RESIZE

\* C22: when bridge::run has left its main loop and returned (after the end
\* of stdin, the end of the socket's stream, an EXIT frame, or a failed read
\* or write of stdin, the socket or stdout), the last frame it handed to the
\* socket is a DETACH frame; and no INPUT or RESIZE frame is ever handed to
\* the socket after a DETACH frame.
C22_DetachIsLast ==
    /\ bridge.pc = "returned" =>
           /\ bridge.tried # <<>>
           /\ bridge.tried[Len(bridge.tried)] = client_DETACH
    /\ \A i, j \in 1..Len(bridge.tried) :
           (i < j /\ bridge.tried[i] = client_DETACH) =>
               bridge.tried[j] \notin {client_INPUT, client_RESIZE}

\* the bridge sent RESIZE and a key, then stdin ended after a second key: the
\* key went out, DETACH was sent in the stdin arm and again after the loop
C22_Witness ==
    /\ bridge.pc = "returned"
    /\ bridge.stdin = "eof"
    /\ bridge.tried = <<client_RESIZE, client_INPUT, client_INPUT,
                        client_DETACH, client_DETACH>>
    /\ bridge.toDaemon = encode(client_RESIZE, <<100, 0, 40, 0>>)
                            \o encode(client_INPUT, <<97>>)
                            \o encode(client_INPUT, <<98>>)
                            \o encode(client_DETACH, <<>>)
                            \o encode(client_DETACH, <<>>)

\* C23: while bridge::run is in its main loop on a terminal, stdin is in raw
\* mode and the guard holds the attributes found at entry; and when run has
\* ended, by Ok or by Err at any step, stdin has the attributes it had at
\* entry.
C23_TerminalRestored ==
    /\ (bridge.pc = "loop" /\ bridge.tty) =>
           /\ bridge.attrs = "raw"
           /\ bridge.guard = <<bridge.original>>
    /\ bridge.pc \in {"returned", "failed"} =>
           /\ bridge.attrs = bridge.original
           /\ bridge.guard = <<>>

\* run was entered on a terminal in cbreak mode, put it into raw mode, and
\* failed to write the initial RESIZE frame: the terminal is in cbreak mode
C23_Witness ==
    /\ bridge.pc = "failed"
    /\ bridge.err = "write"
    /\ bridge.tty
    /\ bridge.original = "cbreak"
    /\ bridge.attrs = "cbreak"

(***************************************************************************)
(* SpecCodec: the functions of the protocol crate on their own.  A call    *)
(* of encode followed by decode_header on the first HEADER_SIZE bytes, or  *)
(* a call of encode_resize followed by decode_resize, on arguments drawn   *)
(* from the sets below.                                                    *)
(***************************************************************************)
\* the longest payload of which every content is tried
MaxPayload == 2

\* the byte values of those payloads
CodecBytes == {0, 255}

\* longer payloads, one content each: lengths around 2^8 and 2^16
LongLens == {255, 256, 257, 65535, 65536, 65537}

\* the message types tried with the longer payloads
LongTypes == {client_INPUT, server_SCROLLBACK}

\* the values of cols and rows: around 0, 2^8, 2^15 and 2^16
ResizeValues == {0, 1, 120, 255, 256, 257, 32767, 32768, 65534, 65535}

CodecInputs ==
    {[op |-> "encode", msg_type |-> t, payload |-> q] :
        t \in 0..255, q \in SeqsUpTo(CodecBytes, MaxPayload)}
    \cup {[op |-> "encode", msg_type |-> t, payload |-> [i \in 1..n |-> 104]] :
        t \in LongTypes, n \in LongLens}
    \cup {[op |-> "encode_resize", cols |-> c, rows |-> r] :
        c \in ResizeValues, r \in ResizeValues}

CodecInit ==
    /\ codec \in CodecInputs
    /\ bridge = NoBridge
    /\ scrollback = ScrollbackBuffer_new(ScrollCap)
    /\ appended = <<>>
    /\ lastAppend = 0
    /\ script = <<>>
    /\ ServerInit

\* encode(msg_type, payload), then decode_header(encoded[..HEADER_SIZE])
CodecFrame ==
    /\ codec.op = "encode"
    /\ LET encoded == encode(codec.msg_type, codec.payload)
       IN codec' = [op |-> "encoded", msg_type |-> codec.msg_type,
                    payload |-> codec.payload, encoded |-> encoded,
                    header |-> decode_header(SubSeq(encoded, 1, HEADER_SIZE))]
    /\ UNCHANGED <<progVars, envVars, histVars, bridge>>

\* encode_resize(cols, rows), then decode_resize(&buf)
CodecResize ==
    /\ codec.op = "encode_resize"
    /\ LET buf == encode_resize(codec.cols, codec.rows)
       IN codec' = [op |-> "resized", cols |-> codec.cols, rows |-> codec.rows,
                    buf |-> buf, decoded |-> decode_resize(buf)]
    /\ UNCHANGED <<progVars, envVars, histVars, bridge>>

CodecNext ==
    \/ CodecFrame
    \/ CodecResize

SpecCodec == CodecInit /\ [][CodecNext]_vars

C25_ResizeRoundTrip ==
    codec.op = "resized" =>
        /\ Len(codec.buf) = 4
        /\ codec.buf = <<codec.cols % 256, codec.cols \div 256,
                         codec.rows % 256, codec.rows \div 256>>
        /\ \A i \in 1..4 : codec.buf[i] \in 0..255
        /\ codec.decoded = <<codec.cols, codec.rows>>

\* 65535 columns and 256 rows were encoded as ff ff 00 01 and decoded
C25_Witness ==
    /\ codec.op = "resized"
    /\ codec.cols = 65535
    /\ codec.rows = 256
    /\ codec.buf = <<255, 255, 0, 1>>
    /\ codec.decoded = <<65535, 256>>

\* C26: a message with no payload is encoded as its type byte alone, without
\* the length field.
C26_EmptyPayloadOmitsLength ==
    (codec.op = "encoded" /\ codec.payload = <<>>) =>
        codec.encoded = <<codec.msg_type>>

(***************************************************************************)
(* SpecWinch: the window-change signal against the TOKEN_WAKE arm, step by *)
(* step.  Here bridge is a record of                                       *)
(*   pc        "poll" in poll.poll, "woken" with the TOKEN_WAKE event to   *)
(*             handle, "drained" after the pipe was drained, "swapped"     *)
(*             after the swap returned true, "returned" after the loop     *)
(*   sigwinch  SIGWINCH_RECEIVED                                           *)
(*   wake      how many bytes the self-pipe holds                          *)
(*   ready     the read end of the pipe is on epoll's ready list           *)
(*   hpc       "idle", or "stored" while sigwinch_handler is between its   *)
(*             store and its write                                         *)
(*   pending   a SIGWINCH is pending                                       *)
(*   winsize   what get_winsize(stdout) gives, <<>> when the ioctl fails   *)
(*   daemon    "open" while the socket takes what write_all gives it       *)
(*   signals   how many times the window was resized                       *)
(*   owed      history: a signal was delivered and no RESIZE frame with a  *)
(*             size queried after it has been sent                         *)
(*   last      history: the size in the last RESIZE frame, <<>> if none    *)
(*   resized   history: how many RESIZE frames the arm has sent            *)
(* The handler's two steps may fall between any two steps of the loop.     *)
(***************************************************************************)
\* how many times the user resizes the window in SpecWinch
MaxSignals == 3

\* SIGWINCH_RECEIVED.store(true, Ordering::SeqCst)
sigwinch_store(B) ==
    [B EXCEPT !.sigwinch = TRUE, !.hpc = "stored", !.pending = FALSE,
              !.owed = TRUE]

\* libc::write(WAKE_WRITE_FD, b"W", 1): the pipe gets a byte and its read
\* end goes onto the ready list
sigwinch_write(B) ==
    [B EXCEPT !.wake = @ + 1, !.ready = TRUE, !.hpc = "idle"]

\* the read loop of the TOKEN_WAKE arm: until the pipe is empty
wake_drain(B) ==
    [B EXCEPT !.wake = 0]

\* SIGWINCH_RECEIVED.swap(false, Ordering::SeqCst): the value it returns
wake_swap(B) ==
    [B |-> [B EXCEPT !.sigwinch = FALSE], taken |-> B.sigwinch]

\* get_winsize(stdout_fd) and, if Ok, the RESIZE frame, with the result of
\* socket.write_all ignored
wake_resize(B) ==
    IF B.winsize = <<>> \/ ~socket_write_ok(B) THEN B
    ELSE [B EXCEPT !.last = B.winsize, !.resized = Min(@ + 1, MaxSignals + 1),
                   !.owed = FALSE]

\* a TOKEN_WAKE arm that swaps the flag first and drains the pipe afterwards
wake_arm_swap_first(B) ==
    CASE B.pc = "woken" ->
            [wake_swap(B).B EXCEPT
                !.pc = IF wake_swap(B).taken THEN "taken" ELSE "drained"]
      [] B.pc \in {"taken", "drained"} ->
            [wake_drain(B) EXCEPT
                !.pc = IF B.pc = "taken" THEN "swapped" ELSE "poll"]
      [] B.pc = "swapped" -> [wake_resize(B) EXCEPT !.pc = "poll"]

\* the next step of the TOKEN_WAKE arm: drain, then swap, then RESIZE if the
\* flag was set
wake_arm(B) ==
    CASE B.pc = "woken" -> [wake_drain(B) EXCEPT !.pc = "drained"]
      [] B.pc = "drained" ->
            [wake_swap(B).B EXCEPT
                !.pc = IF wake_swap(B).taken THEN "swapped" ELSE "poll"]
      [] B.pc = "swapped" -> [wake_resize(B) EXCEPT !.pc = "poll"]

\* the main loop is running on a terminal of 100 x 40, or with stdout that
\* is no terminal
WinchInit ==
    /\ \E ws \in {<<>>, <<100, 40>>} :
        bridge = [pc |-> "poll", sigwinch |-> FALSE, wake |-> 0, ready |-> FALSE,
                  hpc |-> "idle", pending |-> FALSE, winsize |-> ws,
                  daemon |-> "open",
                  signals |-> 0, owed |-> FALSE, last |-> <<>>, resized |-> 0]
    /\ codec = NoCodec
    /\ script = <<>>
    /\ scrollback = ScrollbackBuffer_new(ScrollCap)
    /\ appended = <<>>
    /\ lastAppend = 0
    /\ ServerInit

\* the user resizes the window: the terminal has its new size and SIGWINCH
\* is pending for the bridge
WinchSignal ==
    /\ bridge.pc # "returned"
    /\ bridge.signals < MaxSignals
    /\ bridge' = [bridge EXCEPT
                     !.signals = @ + 1,
                     !.pending = TRUE,
                     !.winsize = IF @ = <<>> THEN <<>>
                                 ELSE IF @ = <<100, 40>> THEN <<300, 50>>
                                 ELSE <<100, 40>>]
    /\ UNCHANGED <<progVars, envVars, histVars, codec>>

\* the signal is delivered: sigwinch_handler starts (SIGWINCH is blocked
\* while its handler runs)
HandlerStore ==
    /\ bridge.pc # "returned"
    /\ bridge.pending
    /\ bridge.hpc = "idle"
    /\ bridge' = sigwinch_store(bridge)
    /\ UNCHANGED <<progVars, envVars, histVars, codec>>

\* sigwinch_handler writes its byte and returns
HandlerWrite ==
    /\ bridge.hpc = "stored"
    /\ bridge' = sigwinch_write(bridge)
    /\ UNCHANGED <<progVars, envVars, histVars, codec>>

\* poll.poll reports TOKEN_WAKE: the pipe is on the ready list and readable
WakePoll ==
    /\ bridge.pc = "poll"
    /\ bridge.ready
    /\ bridge.wake > 0
    /\ bridge' = [bridge EXCEPT !.pc = "woken", !.ready = FALSE]
    /\ UNCHANGED <<progVars, envVars, histVars, codec>>

\* TOKEN_WAKE => ..., one step of it
WakeStep ==
    /\ bridge.pc \in {"woken", "drained", "taken", "swapped"}
    /\ bridge' = wake_arm(bridge)
    /\ UNCHANGED <<progVars, envVars, histVars, codec>>

\* the daemon is gone, or its socket is full: write_all fails from now on
WinchSocketFail ==
    /\ bridge.pc # "returned"
    /\ bridge.daemon = "open"
    /\ bridge' = [bridge EXCEPT !.daemon = "closed"]
    /\ UNCHANGED <<progVars, envVars, histVars, codec>>

\* another arm leaves the main loop (`break 'main`)
WinchLeave ==
    /\ bridge.pc = "poll"
    /\ bridge' = [bridge EXCEPT !.pc = "returned"]
    /\ UNCHANGED <<progVars, envVars, histVars, codec>>

WinchMain ==
    \/ WakePoll
    \/ WakeStep

WinchNext ==
    \/ WinchSignal
    \/ HandlerStore
    \/ HandlerWrite
    \/ WakePoll
    \/ WakeStep
    \/ WinchSocketFail
    \/ WinchLeave

\* the bridge's one thread is always scheduled, and a pending signal is
\* delivered to it
SpecWinch ==
    /\ WinchInit
    /\ [][WinchNext]_vars
    /\ WF_vars(WinchMain)
    /\ WF_vars(HandlerStore)
    /\ WF_vars(HandlerWrite)

\* a delivered signal will be answered: its handler has yet to write its
\* byte, or the arm has taken the flag, or the flag is set and the arm is
\* before its swap or will be woken
WillAnswer ==
    \/ bridge.hpc = "stored"
    \/ bridge.pc = "swapped"
    \/ /\ bridge.sigwinch
       /\ \/ bridge.pc \in {"woken", "drained"}
          \/ bridge.ready /\ bridge.wake > 0

ReplayTokens ==
    {<<27>>, <<27, 91>>, <<91>>, <<48>>, <<99>>, <<110>>, <<109>>}

\* how many of them
MaxReplayTokens == 5

RECURSIVE ReplayStreams(_)
ReplayStreams(n) ==
    IF n = 0 THEN {<<>>}
    ELSE ReplayStreams(n - 1) \cup
         {s \o t : s \in ReplayStreams(n - 1), t \in ReplayTokens}

ReplayInit ==
    /\ \E data \in ReplayStreams(MaxReplayTokens) :
        codec = [op |-> "sanitize", data |-> data, out |-> <<>>, again |-> <<>>]
    /\ bridge = NoBridge
    /\ scrollback = ScrollbackBuffer_new(ScrollCap)
    /\ appended = <<>>
    /\ lastAppend = 0
    /\ script = <<>>
    /\ ServerInit

\* sanitize_scrollback_for_replay(&self.session.scrollback.get_contents())
ReplaySanitize ==
    /\ codec.op = "sanitize"
    /\ codec' = [codec EXCEPT !.op = "sanitized",
                              !.out = sanitize_scrollback_for_replay(codec.data)]
    /\ UNCHANGED <<progVars, envVars, histVars, bridge>>

\* the sanitizer applied to the replay
ReplaySanitizeAgain ==
    /\ codec.op = "sanitized"
    /\ codec' = [codec EXCEPT !.op = "resanitized",
                              !.again = sanitize_scrollback_for_replay(codec.out)]
    /\ UNCHANGED <<progVars, envVars, histVars, bridge>>

ReplayNext ==
    \/ ReplaySanitize
    \/ ReplaySanitizeAgain

SpecReplay == ReplayInit /\ [][ReplayNext]_vars

\* C35: the sanitizer is idempotent, sanitize(sanitize(x)) = sanitize(x): the
\* replay holds no complete CSI query sequence that the sanitizer would strip.
C35_SanitizeIdempotent ==
    codec.op = "resanitized" => codec.again = codec.out
====
